---- MODULE Spec2Model ----
(***************************************************************************)
(* Model of the moonstone MDM server core: the SQLite store, the NanoMdm   *)
(* service, the cert-auth wrapper, the device-facing HTTP handlers and the *)
(* operator endpoints that enqueue commands.                               *)
(*                                                                         *)
(* Conventions.  An Option<T> is a sequence of length 0 (None) or 1        *)
(* (Some).  A uuid is a natural number, 0 standing for the empty string;   *)
(* the version-4 uuids the program draws are fresh numbers 1, 2, ... and   *)
(* the ones an operator writes into a plist come from OperatorUuids.       *)
(* chrono::Utc::now() is read as a clock that advances at every insert     *)
(* into the commands table, so created_at orders rows as they were         *)
(* inserted.  Store operations succeed: connection and I/O failures of     *)
(* SQLite are not modelled.                                                *)
(*                                                                         *)
(* Specifications.  SpecQueue: the command queue (enqueue, poll, report).  *)
(* SpecCheckin: the enrollment lifecycle through check-in messages.        *)
(* SpecReenroll: lifecycle and queue together.  SpecCertAuth: the router   *)
(* built on CertAuthService.  SpecServer: the server as assembled, with    *)
(* client certificates presented.  SpecPar: command polls in parallel.     *)
(* SpecPush: the lifecycle with a push service.  SpecResolve: identity      *)
(* resolution.  SpecFaults: requests whose store calls fail.  Each keeps    *)
(* only the history its properties read.                                    *)
(*                                                                         *)
(* The device side is modelled next to the server: the moonstone daemon    *)
(* (SpecDaemon), the focus agent's AppEnforcer (SpecAppEnforcer) and the    *)
(* watchdog with its heartbeat loop (SpecWatchdog).  The calls to          *)
(* lsappinfo succeed and list every running application; the schedule is   *)
(* read once per tick.                                                     *)
(***************************************************************************)
EXTENDS Naturals, Integers, Sequences, FiniteSets, TLC

VARIABLES
    enrollments,       \* table enrollments: id -> row (only the rows present)
    commands,          \* table commands: rows in insertion order
    bootstrap_tokens,  \* table bootstrap_tokens: enrollment_id -> token
    cert_auth,         \* table cert_auth: set of <<enrollment_id, cert_hash>>
    uuid_src,          \* number of version-4 uuids drawn so far
    clock,             \* number of created_at timestamps handed out so far
    last,              \* the request completed by the last step
    lifecycle,         \* per id: the most recent lifecycle message handled, whether
                       \* an Authenticate was, and the topic of the last one
    delivered,         \* per row uuid: polls that returned the row since its last result
    ever_delivered,    \* row uuids some poll has returned
    unsolicited,       \* row uuids whose result was stored before any delivery
    issued,            \* per row uuid: the command_uuid the operator was answered
    acknowledged,      \* row uuids whose enrollment's latest report was Acknowledged
                       \* with CommandUUID = issued[uuid]
    session_cert,      \* per id: <<c>> after Authenticate with certificate c, <<c, c>>
                       \* after a TokenUpdate with c that followed it, <<>> otherwise
    polls,             \* per poller of the parallel specification: where its command
                       \* poll stands, the id it resolved, the row uuid it was given
    agent,             \* the device-side agent process: its flags, its enforcer, the
                       \* schedule as the clock makes it, the applications running
    watchdog,          \* the watchdog process: where its main stands, the heartbeat
                       \* loop's count, the tamper responses invoked
    cli,               \* the moonstone CLI running emergency-disable: where its typing
                       \* challenge stands
    network            \* the daemon's NetworkBlocker with the packet-filter anchor
                       \* com.moonstone and its rules file, which outlive the process

vars == <<enrollments, commands, bootstrap_tokens, cert_auth, uuid_src, clock,
          last, lifecycle, delivered, ever_delivered, unsolicited, issued,
          acknowledged, session_cert, polls, agent, watchdog, cli, network>>

----------------------------------------------------------------------------
(* Bounds of the model *)

\* rows inserted into the commands table in one run
MaxRows == 2

----------------------------------------------------------------------------
(* Option *)

None == <<>>
Some(x) == <<x>>
IsSome(o) == o # <<>>
Unwrap(o) == o[1]

----------------------------------------------------------------------------
(* Input domains *)

Udids == {"A", "B"}

\* raw enrollment fields of a request (core/src/enrollment.rs Enrollment)
Enrollment(udid, user_id, enrollment_id, enrollment_user_id) ==
    [udid |-> udid, user_id |-> user_id, enrollment_id |-> enrollment_id,
     enrollment_user_id |-> enrollment_user_id]

RawEnrollments ==
    {Enrollment(Some(u), None, None, None) : u \in Udids}
        \cup {Enrollment(None, None, None, None)}

SHARED_IPAD_USER_ID == "FFFFFFFF-FFFF-FFFF-FFFF-FFFFFFFFFFFF"

\* the EnrollId of a device enrollment: EnrollId { enroll_type: Device, id, parent_id: None }
DeviceId(s) == [enroll_type |-> "Device", id |-> s, parent_id |-> None]

\* (mutation of resolve: the legacy UDID patterns tried before EnrollmentID)
resolve_udid_first(e) ==
    IF IsSome(e.udid)
    THEN IF IsSome(e.user_id)
         THEN Some([enroll_type |-> IF Unwrap(e.user_id) = SHARED_IPAD_USER_ID
                                    THEN "SharedIpad" ELSE "User",
                    id |-> Unwrap(e.udid) \o ":" \o Unwrap(e.user_id),
                    parent_id |-> Some(Unwrap(e.udid))])
         ELSE Some(DeviceId(Unwrap(e.udid)))
    ELSE IF IsSome(e.enrollment_id)
    THEN IF IsSome(e.enrollment_user_id)
         THEN Some([enroll_type |-> "UserEnrollment",
                    id |-> Unwrap(e.enrollment_id) \o ":" \o Unwrap(e.enrollment_user_id),
                    parent_id |-> Some(Unwrap(e.enrollment_id))])
         ELSE Some([enroll_type |-> "UserEnrollmentDevice",
                    id |-> Unwrap(e.enrollment_id),
                    parent_id |-> None])
    ELSE None

\* Enrollment::resolve
resolve(e) ==
    IF IsSome(e.enrollment_id)
    THEN IF IsSome(e.enrollment_user_id)
         THEN Some([enroll_type |-> "UserEnrollment",
                    id |-> Unwrap(e.enrollment_id) \o ":" \o Unwrap(e.enrollment_user_id),
                    parent_id |-> Some(Unwrap(e.enrollment_id))])
         ELSE Some([enroll_type |-> "UserEnrollmentDevice",
                    id |-> Unwrap(e.enrollment_id),
                    parent_id |-> None])
    ELSE IF IsSome(e.udid)
    THEN IF IsSome(e.user_id)
         THEN Some([enroll_type |-> IF Unwrap(e.user_id) = SHARED_IPAD_USER_ID
                                    THEN "SharedIpad" ELSE "User",
                    id |-> Unwrap(e.udid) \o ":" \o Unwrap(e.user_id),
                    parent_id |-> Some(Unwrap(e.udid))])
         ELSE Some(DeviceId(Unwrap(e.udid)))
    ELSE None

\* the id strings the requests of the model resolve to
Ids == {Unwrap(resolve(e)).id : e \in {r \in RawEnrollments : IsSome(resolve(r))}}

Topics == {"com.apple.mgmt.T1", "com.apple.mgmt.T2"}
T1 == "com.apple.mgmt.T1"
PushMagics == {"M1", "M2"}
PushTokens == {<<170, 187>>}
BootstrapTokens == {<<7>>}

\* CommandUUID values an operator writes into the plist posted to /v1/enqueue
OperatorUuids == {901}

CommandStatuses == {"Acknowledged", "Error", "CommandFormatError", "NotNow", "Idle"}

----------------------------------------------------------------------------
(* mdm_crypto::cert_hash *)

RECURSIVE Xor(_, _, _)
\* bitwise exclusive or of the low n bits of a and b
Xor(a, b, n) ==
    IF n = 0 THEN 0
    ELSE (((a % 2) + (b % 2)) % 2) + 2 * Xor(a \div 2, b \div 2, n - 1)

HASH_LEN == 32

\* result[i % 32] ^= byte.wrapping_add((i / 32) as u8), i counted from 0
RECURSIVE HashFold(_, _, _)
HashFold(cert_der, k, acc) ==
    IF k > Len(cert_der) THEN acc
    ELSE LET i == k - 1
             slot == (i % HASH_LEN) + 1
             b == (cert_der[k] + ((i \div HASH_LEN) % 256)) % 256
         IN HashFold(cert_der, k + 1, [acc EXCEPT ![slot] = Xor(@, b, 8)])

cert_hash(cert_der) == HashFold(cert_der, 1, [i \in 1..HASH_LEN |-> 0])

\* DER certificates the devices of the model present
CertA == <<1>>
CertB == <<2>>

----------------------------------------------------------------------------
(* The store: SqliteStorage.  Every operation takes the database st (the   *)
(* five tables' modelled columns plus the uuid source and the clock) and   *)
(* gives the database after the statement(s) it executes.                  *)

DB == [enrollments |-> enrollments, commands |-> commands,
       bootstrap_tokens |-> bootstrap_tokens, cert_auth |-> cert_auth,
       uuid_src |-> uuid_src, clock |-> clock]

\* a map with key k set to v (INSERT ... ON CONFLICT DO UPDATE on the key)
Upsert(f, k, v) == [x \in DOMAIN f \cup {k} |-> IF x = k THEN v ELSE f[x]]
\* a map without key k (DELETE ... WHERE key = k)
Remove(f, k) == [x \in DOMAIN f \ {k} |-> f[x]]

\* (mutation of store_authenticate: the upsert without the DELETE of the queue)
store_authenticate_keeps_queue(st, id, msg) ==
    LET row == IF id.id \in DOMAIN st.enrollments
               THEN [st.enrollments[id.id] EXCEPT !.topic = msg.topic, !.disabled = TRUE]
               ELSE [topic |-> msg.topic, push_magic |-> None, push_token |-> None,
                     disabled |-> TRUE]
    IN [st EXCEPT !.enrollments = Upsert(st.enrollments, id.id, row)]

\* (mutation of clear_command_queue: DELETE FROM commands, no WHERE)
clear_command_queue_of_all(st, id) == [st EXCEPT !.commands = <<>>]

\* CheckinStore::store_authenticate, first statement: DELETE FROM commands WHERE
\* enrollment_id = id
clear_command_queue(st, id) ==
    [st EXCEPT !.commands = SelectSeq(@, LAMBDA r : r.enrollment_id # id.id)]

\* CheckinStore::store_authenticate, second statement: INSERT INTO enrollments ...
\* ON CONFLICT (id) DO UPDATE SET topic, disabled = true, ...
upsert_enrollment(st, id, msg) ==
    LET row == IF id.id \in DOMAIN st.enrollments
               THEN [st.enrollments[id.id] EXCEPT !.topic = msg.topic, !.disabled = TRUE]
               ELSE [topic |-> msg.topic, push_magic |-> None, push_token |-> None,
                     disabled |-> TRUE]
    IN [st EXCEPT !.enrollments = Upsert(st.enrollments, id.id, row)]

\* CheckinStore::store_authenticate
store_authenticate(st, id, msg) == upsert_enrollment(clear_command_queue(st, id), id, msg)

\* (mutation of store_token_update: the UPDATE without disabled = false)
store_token_update_still_disabled(st, id, msg) ==
    IF id.id \in DOMAIN st.enrollments
    THEN [st EXCEPT !.enrollments[id.id] =
              [@ EXCEPT !.push_magic = Some(msg.push_magic),
                        !.push_token = Some(msg.token)]]
    ELSE st

\* CheckinStore::store_token_update
store_token_update(st, id, msg) ==
    IF id.id \in DOMAIN st.enrollments
    THEN [st EXCEPT !.enrollments[id.id] =
              [@ EXCEPT !.push_magic = Some(msg.push_magic),
                        !.push_token = Some(msg.token),
                        !.disabled = FALSE]]
    ELSE st

\* (mutation of disable: the UPDATE matches no row)
disable_no_row(st, id) == st

\* CheckinStore::disable
disable(st, id) ==
    IF id.id \in DOMAIN st.enrollments
    THEN [st EXCEPT !.enrollments[id.id].disabled = TRUE]
    ELSE st

\* CheckinStore::store_checkout
store_checkout(st, id, msg) == disable(st, id)

\* CheckinStore::is_disabled
is_disabled(st, id) ==
    IF id.id \in DOMAIN st.enrollments THEN st.enrollments[id.id].disabled ELSE TRUE

\* CommandStore::enqueue_command: the new database and the uuid of the new row
enqueue_command(st, id, command) ==
    LET uuid == st.uuid_src + 1
        now == st.clock + 1
        new_command == [enrollment_id |-> id.id, uuid |-> uuid, command |-> command,
                        status |-> "Pending", result |-> None, created_at |-> now]
    IN [st |-> [st EXCEPT !.commands = Append(@, new_command),
                          !.uuid_src = uuid, !.clock = now],
        uuid |-> uuid]

\* (mutation of PendingRows: no filter on status)
PendingRowsAnyStatus(st, id) == {i \in DOMAIN st.commands : st.commands[i].enrollment_id = id.id}

\* WHERE enrollment_id = id AND status = 'Pending'
PendingRows(st, id) ==
    {i \in DOMAIN st.commands :
        st.commands[i].enrollment_id = id.id /\ st.commands[i].status = "Pending"}

\* (mutation of FirstByCreatedAt: ORDER BY created_at DESC)
FirstByCreatedAtDesc(st, rows) ==
    CHOOSE i \in rows : \A j \in rows : st.commands[i].created_at >= st.commands[j].created_at

\* ORDER BY created_at ASC, first row
FirstByCreatedAt(st, rows) ==
    CHOOSE i \in rows : \A j \in rows : st.commands[i].created_at <= st.commands[j].created_at

\* the QueuedCommand made of a row of the commands table
QueuedCommand(row) ==
    [uuid |-> row.uuid, command |-> row.command, created_at |-> row.created_at]

\* .first().optional() over the rows selected
FirstOptional(st, rows) ==
    IF rows = {} THEN None
    ELSE Some(QueuedCommand(st.commands[FirstByCreatedAt(st, rows)]))

\* CommandStore::next_command
next_command(st, id) == FirstOptional(st, PendingRows(st, id))

\* CommandStore::store_result
store_result(st, id, results) ==
    [st EXCEPT !.commands =
        [i \in DOMAIN st.commands |->
            IF st.commands[i].enrollment_id = id.id
               /\ st.commands[i].uuid = results.command_uuid
            THEN [st.commands[i] EXCEPT !.status = results.status,
                                        !.result = Some(results.raw)]
            ELSE st.commands[i]]]

\* BootstrapTokenStore::store_bootstrap_token
store_bootstrap_token(st, id, token) ==
    [st EXCEPT !.bootstrap_tokens = Upsert(@, id.id, token)]

\* BootstrapTokenStore::get_bootstrap_token
get_bootstrap_token(st, id) ==
    IF id.id \in DOMAIN st.bootstrap_tokens THEN Some(st.bootstrap_tokens[id.id]) ELSE None

\* BootstrapTokenStore::delete_bootstrap_token
delete_bootstrap_token(st, id) ==
    [st EXCEPT !.bootstrap_tokens = Remove(@, id.id)]

\* PushStore::get_push_info
get_push_info(st, id) ==
    IF id.id \in DOMAIN st.enrollments /\ ~st.enrollments[id.id].disabled
    THEN LET e == st.enrollments[id.id]
         IN IF IsSome(e.push_magic) /\ IsSome(e.push_token)
            THEN Some([token |-> Unwrap(e.push_token),
                       push_magic |-> Unwrap(e.push_magic),
                       topic |-> e.topic])
            ELSE None
    ELSE None

\* the PushInfo made of a row of the enrollments table
PushInfo(e) ==
    [token |-> Unwrap(e.push_token), push_magic |-> Unwrap(e.push_magic),
     topic |-> e.topic]

\* (mutation of get_push_infos: the SELECT without disabled = false)
get_push_infos_any(st, ids) ==
    LET rows == {s \in DOMAIN st.enrollments : \E id \in ids : id.id = s}
        full == {s \in rows : /\ IsSome(st.enrollments[s].push_magic)
                              /\ IsSome(st.enrollments[s].push_token)}
    IN [s \in full |-> PushInfo(st.enrollments[s])]

\* PushStore::get_push_infos: the Vec<PushInfo>, each element under the id of the
\* row it was made of
get_push_infos(st, ids) ==
    LET rows == {s \in DOMAIN st.enrollments :
                    /\ \E id \in ids : id.id = s
                    /\ ~st.enrollments[s].disabled}
        full == {s \in rows : /\ IsSome(st.enrollments[s].push_magic)
                              /\ IsSome(st.enrollments[s].push_token)}
    IN [s \in full |-> PushInfo(st.enrollments[s])]

\* PushService::push_by_ids: the infos handed to Pusher::push
push_by_ids(st, ids) == get_push_infos(st, ids)

\* (mutation of associate_cert: the INSERT keeps the certificate, not its hash)
associate_cert_unhashed(st, id, hash) ==
    [st EXCEPT !.cert_auth = @ \cup {<<id.id, <<>> >>}]

\* (mutation of associate_cert: the rows of the enrollment are replaced by the new one)
associate_cert_replacing(st, id, hash) ==
    [st EXCEPT !.cert_auth = {p \in @ : p[1] # id.id} \cup {<<id.id, hash>>}]

\* CertAuthStore::associate_cert: the table's rows (integer key, enrollment_id,
\* cert_hash) are read only through the count of has_cert_auth, so the model keeps
\* the set of the pairs inserted
associate_cert(st, id, hash) ==
    [st EXCEPT !.cert_auth = @ \cup {<<id.id, hash>>}]

\* CertAuthStore::has_cert_auth
has_cert_auth(st, id, hash) == <<id.id, hash>> \in st.cert_auth

----------------------------------------------------------------------------
(* Requests and results of the service layer.  A result is                 *)
(*   ok     whether the operation returned Ok                              *)
(*   err    the eyre error it returned otherwise                           *)
(*   st     the database afterwards                                        *)
(*   resp   the Option it returned (None for the () operations)            *)
(*   queued the row next_command gave a command poll                       *)
(*   calls  the services whose operation was invoked, in order             *)

\* Request::new with with_enroll_id / with_certificate applied
Request(enroll_id, certificate) == [enroll_id |-> enroll_id, certificate |-> certificate]

ERR_UNRESOLVED == "enrollment ID not resolved"
ERR_NO_CERT == "no certificate in request"
ERR_NOT_AUTHORIZED == "certificate not authorized for enrollment"
ERR_PARSE == "failed to parse"
ERR_HEADER == "invalid certificate header"

Ok(st, resp, calls) ==
    [ok |-> TRUE, err |-> "", st |-> st, resp |-> resp, queued |-> None, calls |-> calls]
Err(st, err, calls) ==
    [ok |-> FALSE, err |-> err, st |-> st, resp |-> None, queued |-> None, calls |-> calls]

\* Request::require_enroll_id
require_enroll_id(req) == req.enroll_id

\* plist::from_bytes on a command body: the Command, when the body is one
plist_from_bytes(body) == IF body.kind = "command" THEN Some(body.command) ELSE None

\* mdm_core::serialize_command
serialize_command(cmd) == [kind |-> "command", command |-> cmd]

----------------------------------------------------------------------------
(* NanoMdm *)

\* (mutation of nanomdm_authenticate: the bootstrap token is not deleted)
nanomdm_authenticate_keeps_token(st, req, msg) ==
    IF ~IsSome(require_enroll_id(req)) THEN Err(st, ERR_UNRESOLVED, <<"NanoMdm">>)
    ELSE Ok(store_authenticate(st, Unwrap(req.enroll_id), msg), None, <<"NanoMdm">>)

\* NanoMdm::authenticate
nanomdm_authenticate(st, req, msg) ==
    IF ~IsSome(require_enroll_id(req)) THEN Err(st, ERR_UNRESOLVED, <<"NanoMdm">>)
    ELSE LET id == Unwrap(req.enroll_id)
             st1 == delete_bootstrap_token(st, id)
             st2 == store_authenticate(st1, id, msg)
         IN Ok(st2, None, <<"NanoMdm">>)

\* NanoMdm::token_update
nanomdm_token_update(st, req, msg) ==
    IF ~IsSome(require_enroll_id(req)) THEN Err(st, ERR_UNRESOLVED, <<"NanoMdm">>)
    ELSE Ok(store_token_update(st, Unwrap(req.enroll_id), msg), None, <<"NanoMdm">>)

\* NanoMdm::checkout
nanomdm_checkout(st, req, msg) ==
    IF ~IsSome(require_enroll_id(req)) THEN Err(st, ERR_UNRESOLVED, <<"NanoMdm">>)
    ELSE Ok(store_checkout(st, Unwrap(req.enroll_id), msg), None, <<"NanoMdm">>)

\* NanoMdm::user_authenticate, declarative_management, get_token
nanomdm_no_effect(st, req, msg) ==
    IF ~IsSome(require_enroll_id(req)) THEN Err(st, ERR_UNRESOLVED, <<"NanoMdm">>)
    ELSE Ok(st, None, <<"NanoMdm">>)

\* NanoMdm::set_bootstrap_token
nanomdm_set_bootstrap_token(st, req, msg) ==
    IF ~IsSome(require_enroll_id(req)) THEN Err(st, ERR_UNRESOLVED, <<"NanoMdm">>)
    ELSE Ok(store_bootstrap_token(st, Unwrap(req.enroll_id), msg.bootstrap_token),
            None, <<"NanoMdm">>)

\* NanoMdm::get_bootstrap_token
nanomdm_get_bootstrap_token(st, req, msg) ==
    IF ~IsSome(require_enroll_id(req)) THEN Err(st, ERR_UNRESOLVED, <<"NanoMdm">>)
    ELSE Ok(st, get_bootstrap_token(st, Unwrap(req.enroll_id)), <<"NanoMdm">>)

\* the guard of the store_result call in command_and_report_results
ShouldStoreResult(results) == results.command_uuid # 0

\* NanoMdm::command_and_report_results, first half: store the reported result
nanomdm_report(st, id, results) ==
    IF ShouldStoreResult(results) THEN store_result(st, id, results) ELSE st

\* NanoMdm::command_and_report_results, the end: parse the stored command and return it
nanomdm_send(st, next, cmd) ==
    IF IsSome(cmd)
    THEN [Ok(st, cmd, <<"NanoMdm">>) EXCEPT !.queued = next]
    ELSE [Err(st, ERR_PARSE, <<"NanoMdm">>) EXCEPT !.queued = next]

\* NanoMdm::command_and_report_results, second half, given what next_command returned
nanomdm_next(st, next) ==
    IF IsSome(next)
    THEN nanomdm_send(st, next, plist_from_bytes(Unwrap(next).command))
    ELSE Ok(st, None, <<"NanoMdm">>)

\* NanoMdm::command_and_report_results after require_enroll_id
nanomdm_poll(st, id) == nanomdm_next(st, next_command(st, id))

\* NanoMdm::command_and_report_results
nanomdm_command_and_report_results(st, req, results) ==
    IF ~IsSome(require_enroll_id(req)) THEN Err(st, ERR_UNRESOLVED, <<"NanoMdm">>)
    ELSE nanomdm_poll(nanomdm_report(st, Unwrap(req.enroll_id), results),
                      Unwrap(req.enroll_id))

\* NanoMdm as a Checkin + CommandAndReportResults service: the operation for a message
NanoMdm(st, req, msg) ==
    CASE msg.message_type = "Authenticate" -> nanomdm_authenticate(st, req, msg)
      [] msg.message_type = "TokenUpdate" -> nanomdm_token_update(st, req, msg)
      [] msg.message_type = "CheckOut" -> nanomdm_checkout(st, req, msg)
      [] msg.message_type = "SetBootstrapToken" -> nanomdm_set_bootstrap_token(st, req, msg)
      [] msg.message_type = "GetBootstrapToken" -> nanomdm_get_bootstrap_token(st, req, msg)
      [] msg.message_type = "CommandReport" -> nanomdm_command_and_report_results(st, req, msg)
      [] OTHER -> nanomdm_no_effect(st, req, msg)

----------------------------------------------------------------------------
(* CertAuthService wrapping NanoMdm *)

\* (mutation of validate_cert: any presented certificate passes)
validate_cert_any(st, req) ==
    IF ~IsSome(require_enroll_id(req)) THEN ERR_UNRESOLVED
    ELSE IF ~IsSome(req.certificate) THEN ERR_NO_CERT
    ELSE ""

\* CertAuthService::validate_cert: the error it returns, "" when it returns Ok
validate_cert(st, req) ==
    IF ~IsSome(require_enroll_id(req)) THEN ERR_UNRESOLVED
    ELSE IF ~IsSome(req.certificate) THEN ERR_NO_CERT
    ELSE IF ~has_cert_auth(st, Unwrap(req.enroll_id), cert_hash(Unwrap(req.certificate)))
         THEN ERR_NOT_AUTHORIZED
    ELSE ""

\* a result with the wrapper's own invocation recorded before the inner one's
Wrapped(r) == [r EXCEPT !.calls = <<"CertAuthService">> \o @]

\* CertAuthService::authenticate
certauth_authenticate(st, req, msg) ==
    LET st1 == IF IsSome(req.enroll_id) /\ IsSome(req.certificate)
               THEN associate_cert(st, Unwrap(req.enroll_id),
                                   cert_hash(Unwrap(req.certificate)))
               ELSE st
    IN Wrapped(nanomdm_authenticate(st1, req, msg))

\* the ? after validate_cert, then the inner operation
certauth_then(st, req, msg, e) ==
    IF e # "" THEN Err(st, e, <<"CertAuthService">>)
    ELSE Wrapped(NanoMdm(st, req, msg))

\* CertAuthService: token_update, checkout, user_authenticate, set_bootstrap_token,
\* get_bootstrap_token, declarative_management, get_token, command_and_report_results
certauth_validated(st, req, msg) == certauth_then(st, req, msg, validate_cert(st, req))

\* CertAuthService<S, NanoMdm> as a service: the operation for a message
CertAuthService(st, req, msg) ==
    IF msg.message_type = "Authenticate"
    THEN certauth_authenticate(st, req, msg)
    ELSE certauth_validated(st, req, msg)


----------------------------------------------------------------------------
(* Store failures.  Every store call gets a pooled connection and executes *)
(* its statements one by one, each committed on its own; a call can fail   *)
(* (no connection, database locked, I/O error) and the ? after it then     *)
(* ends the request, with the statements executed before it kept.          *)

ERR_STORE == "store call failed"

\* the statements an Authenticate executes through service, in order
authenticate_statements(service, req) ==
    (IF service = "CertAuthService" /\ IsSome(req.enroll_id) /\ IsSome(req.certificate)
     THEN <<"associate_cert">> ELSE <<>>)
    \o (IF IsSome(require_enroll_id(req))
        THEN <<"delete_bootstrap_token", "clear_command_queue", "upsert_enrollment">>
        ELSE <<>>)

\* the database after one statement of an Authenticate
Execute(st, stmt, req, msg) ==
    LET id == Unwrap(req.enroll_id)
    IN CASE stmt = "associate_cert" ->
                associate_cert(st, id, cert_hash(Unwrap(req.certificate)))
         [] stmt = "delete_bootstrap_token" -> delete_bootstrap_token(st, id)
         [] stmt = "clear_command_queue" -> clear_command_queue(st, id)
         [] stmt = "upsert_enrollment" -> upsert_enrollment(st, id, msg)

\* the database after the first k statements of stmts
RECURSIVE ExecuteUpTo(_, _, _, _, _)
ExecuteUpTo(st, stmts, k, req, msg) ==
    IF k = 0 THEN st
    ELSE Execute(ExecuteUpTo(st, stmts, k - 1, req, msg), stmts[k], req, msg)
----------------------------------------------------------------------------
(* Transport: the device-facing handlers of mdm_http                        *)

\* a check-in or command-report message after parsing; raw is #[serde(skip)],
\* so it is the empty default in every parsed message
Message(message_type, enrollment, topic, token, push_magic, bootstrap_token, command_uuid, status) ==
    [message_type |-> message_type, enrollment |-> enrollment, topic |-> topic,
     token |-> token, push_magic |-> push_magic, bootstrap_token |-> bootstrap_token,
     command_uuid |-> command_uuid, status |-> status, raw |-> <<>>]

\* the headers of a request: whether Mdm-Signature is present, and the value of the
\* first of X-Ssl-Client-Cert, X-Client-Cert, Ssl-Client-Cert, when one is present
Headers(mdm_signature, client_cert) ==
    [mdm_signature |-> mdm_signature, client_cert |-> client_cert]

\* a certificate header value: well formed (RFC 9440 or URL-encoded PEM) or not
CertHeader(valid, der) == [valid |-> valid, der |-> der]

\* handlers::extract_certificate
extract_certificate(headers) ==
    IF headers.mdm_signature THEN [ok |-> TRUE, cert |-> None]
    ELSE IF IsSome(headers.client_cert)
    THEN IF Unwrap(headers.client_cert).valid
         THEN [ok |-> TRUE, cert |-> Some(Unwrap(headers.client_cert).der)]
         ELSE [ok |-> FALSE, cert |-> None]
    ELSE [ok |-> TRUE, cert |-> None]

\* mdm_core::parse_checkin and parse_command_results on a request body
parse_message(body, kind) == IF body.kind = kind THEN Some(body.msg) ELSE None

----------------------------------------------------------------------------
(* MultiService: a primary service and a list of secondary services.  None  *)
(* is built in the repository; the one modelled is                          *)
(* MultiService::new(NanoMdm, vec![CertAuthService, CertAuthService]), all  *)
(* on one store.  The calls of a result keep, around the calls of each      *)
(* service, which one was invoked and how it returned.                      *)

MULTI_PRIMARY == "NanoMdm"
MULTI_SECONDARY == <<"CertAuthService", "CertAuthService">>

\* the primary or a secondary of the MultiService applied to one message
multi_member(service, st, req, msg) ==
    IF service = "CertAuthService" THEN CertAuthService(st, req, msg)
    ELSE NanoMdm(st, req, msg)

\* the record of an invocation by MultiService: who, the calls made, how it returned
multi_invoked(who, r) == <<who>> \o r.calls \o <<IF r.ok THEN "Ok" ELSE "Err">>

\* (mutation of multi_secondaries: the loop ends at the first secondary that fails)
RECURSIVE multi_secondaries_until_error(_, _, _, _)
multi_secondaries_until_error(r, k, req, msg) ==
    IF k > Len(MULTI_SECONDARY) THEN r
    ELSE LET s == multi_member(MULTI_SECONDARY[k], r.st, req, msg)
             r1 == [r EXCEPT !.st = s.st,
                             !.calls = @ \o multi_invoked("secondary " \o ToString(k), s)]
         IN IF s.ok THEN multi_secondaries_until_error(r1, k + 1, req, msg) ELSE r1

\* for secondary in &self.secondary, from position k on: the secondary is invoked
\* and its result is dropped; r is the primary's result with the store as the
\* secondaries invoked so far left it
RECURSIVE multi_secondaries(_, _, _, _)
multi_secondaries(r, k, req, msg) ==
    IF k > Len(MULTI_SECONDARY) THEN r
    ELSE LET s == multi_member(MULTI_SECONDARY[k], r.st, req, msg)
         IN multi_secondaries(
                [r EXCEPT !.st = s.st,
                          !.calls = @ \o multi_invoked("secondary " \o ToString(k), s)],
                k + 1, req, msg)

\* (mutation of multi_fans_out: every operation has the loop over the secondaries)
multi_fans_out_always(msg) == TRUE

\* whether the operation of MultiService for msg has the loop over the secondaries
multi_fans_out(msg) ==
    msg.message_type \notin {"GetBootstrapToken", "DeclarativeManagement", "GetToken"}

\* MultiService as a Checkin + CommandAndReportResults service
MultiService(st, req, msg) ==
    LET p == multi_member(MULTI_PRIMARY, st, req, msg)
        r == [p EXCEPT !.calls = multi_invoked("primary", p)]
    IN IF ~p.ok \/ ~multi_fans_out(msg) THEN r
       ELSE multi_secondaries(r, 1, req, msg)

\* the service the router was built with, applied to one message
Service(service, st, req, msg) ==
    IF service = "CertAuthService" THEN CertAuthService(st, req, msg)
    ELSE IF service = "MultiService" THEN MultiService(st, req, msg)
    ELSE NanoMdm(st, req, msg)

\* handlers::handle_checkin_inner and handle_command_inner, given the certificate
\* extracted and the message parsed
handle_parsed(service, st, cert, msg) ==
    IF ~cert.ok THEN Err(st, ERR_HEADER, <<>>)
    ELSE IF ~IsSome(msg) THEN Err(st, ERR_PARSE, <<>>)
    ELSE Service(service, st,
                 Request(resolve(Unwrap(msg).enrollment), cert.cert),
                 Unwrap(msg))

\* handlers::handle_checkin_inner and handle_command_inner
handle_inner(service, st, headers, body, kind) ==
    handle_parsed(service, st, extract_certificate(headers), parse_message(body, kind))

\* the status line of checkin_handler and command_handler
http_status(r) == IF r.ok THEN 200 ELSE 500

\* the match of checkin_handler and command_handler on the result of the inner
\* function: status, body and the service result
into_response(r) ==
    [status |-> http_status(r), body |-> IF r.ok THEN r.resp ELSE None, r |-> r]

\* handlers::checkin_handler and command_handler
handler(service, st, headers, body, kind) ==
    into_response(handle_inner(service, st, headers, body, kind))

----------------------------------------------------------------------------
(* Operator endpoints *)

\* api::enqueue_inner over the ids of the path, from position k on
RECURSIVE EnqueueEach(_, _, _, _)
EnqueueEach(st, ids, k, body) ==
    IF k > Len(ids) THEN st
    ELSE EnqueueEach(enqueue_command(st, DeviceId(ids[k]), body).st, ids, k + 1, body)

\* api::enqueue_inner: the database afterwards and the EnqueueResponse
enqueue_inner(st, ids, body) ==
    IF ~IsSome(plist_from_bytes(body))
    THEN [ok |-> FALSE, st |-> st, command_uuid |-> 0, request_type |-> ""]
    ELSE [ok |-> TRUE, st |-> EnqueueEach(st, ids, 1, body),
          command_uuid |-> Unwrap(plist_from_bytes(body)).command_uuid,
          request_type |-> Unwrap(plist_from_bytes(body)).request_type]

\* mdm_core::new_command: a Command with a fresh version-4 uuid
new_command(st, request_type) ==
    [st |-> [st EXCEPT !.uuid_src = @ + 1],
     cmd |-> [command_uuid |-> st.uuid_src + 1, request_type |-> request_type]]

\* focus_server::api::set_policy: the database afterwards and the SetPolicyResponse
set_policy(st, device_id) ==
    LET command == new_command(st, "FocusPolicy")
        command_bytes == serialize_command(command.cmd)
        e == enqueue_command(command.st, DeviceId(device_id), command_bytes)
    IN [ok |-> TRUE, st |-> e.st, command_uuid |-> e.uuid]

----------------------------------------------------------------------------
(* The state machine.  Every step is one request handled from start to end. *)
(* The tables, the uuid source and the clock are the program's state; the   *)
(* other variables are history the specifications keep about the requests.  *)
(* A specification names, in obs, the history its properties read; the rest *)
(* stays as Init leaves it.                                                 *)

Commit(st) ==
    /\ enrollments' = st.enrollments
    /\ commands' = st.commands
    /\ bootstrap_tokens' = st.bootstrap_tokens
    /\ cert_auth' = st.cert_auth
    /\ uuid_src' = st.uuid_src
    /\ clock' = st.clock
    /\ UNCHANGED <<agent, watchdog, cli, network>>

LifecycleMessages == {"Authenticate", "TokenUpdate", "CheckOut"}

\* the description of a completed request kept in last: the operation, the resolved
\* id, the certificate extracted, the HTTP status, the error, the services invoked,
\* and (under "args") what the request carried and what the response carried
Completed(op, id, cert, status, err, calls, args, out) ==
    [op |-> op, id |-> id, cert |-> cert, status |-> status, err |-> err,
     calls |-> calls, args |-> args, out |-> out]

NoRequest == Completed("", None, None, 0, "", <<>>, <<>>, <<>>)

\* the rows of table t that belong to enrollment id string s
RowsOf(t, s) == {i \in DOMAIN t : t[i].enrollment_id = s}
\* the uuids of the rows of table t
RowUuids(t) == {t[i].uuid : i \in DOMAIN t}

NoLifecycle == [recent |-> "None", authenticated |-> FALSE, topic |-> ""]

\* history after the service handled lifecycle message msg of id string s, presented
\* with the Option cert
ObserveLifecycle(msg, s, cert, obs) ==
    /\ lifecycle' =
          [lifecycle EXCEPT ![s] =
              [recent |-> msg.message_type,
               authenticated |-> @.authenticated \/ msg.message_type = "Authenticate",
               topic |-> IF msg.message_type = "Authenticate" THEN msg.topic ELSE @.topic]]
    /\ IF "certs" \in obs
       THEN session_cert' =
              [session_cert EXCEPT ![s] =
                  CASE msg.message_type = "Authenticate" -> cert
                    [] msg.message_type = "TokenUpdate" ->
                          IF cert # None /\ @ # <<>> /\ @[1] = cert[1]
                          THEN cert \o cert ELSE <<>>
                    [] OTHER -> @]
       ELSE UNCHANGED session_cert

\* history after a command poll of id string s that carried msg stored a result for
\* the row uuids in stored and was given the row uuid fetched (0 for none);
\* deliveries are counted up to 2
ObservePoll(s, msg, stored, fetched, obs) ==
    LET d1 == [u \in DOMAIN delivered |-> IF u \in stored THEN 0 ELSE delivered[u]]
        d2 == [u \in DOMAIN delivered |->
                 IF u = fetched THEN (IF d1[u] < 2 THEN d1[u] + 1 ELSE 2) ELSE d1[u]]
    IN /\ delivered' = d2
       /\ unsolicited' = unsolicited \cup (stored \ ever_delivered)
       /\ ever_delivered' = ever_delivered \cup ({fetched} \ {0})
       /\ IF "issued" \in obs
          THEN acknowledged' =
                  (acknowledged \ {commands[i].uuid : i \in RowsOf(commands, s)})
                    \cup {commands[i].uuid : i \in {j \in RowsOf(commands, s) :
                              /\ msg.status = "Acknowledged"
                              /\ issued[commands[j].uuid] = msg.command_uuid}}
          ELSE UNCHANGED acknowledged

\* the row uuids a report of msg by id string s names in table t
Named(t, s, msg) ==
    IF ShouldStoreResult(msg)
    THEN {t[i].uuid : i \in {j \in RowsOf(t, s) : t[j].uuid = msg.command_uuid}}
    ELSE {}

\* what last keeps of a parsed message and of the response to it
ArgsOf(msg) ==
    CASE msg.message_type = "CommandReport" -> <<msg.command_uuid, msg.status>>
      [] msg.message_type = "TokenUpdate" -> <<msg.token, msg.push_magic>>
      [] msg.message_type = "SetBootstrapToken" -> <<msg.bootstrap_token>>
      [] OTHER -> <<>>
OutOf(msg, h) ==
    CASE msg.message_type = "CommandReport" ->
            IF IsSome(h.body) THEN <<Unwrap(h.body).command_uuid>> ELSE <<>>
      [] OTHER -> h.body

\* a request to POST /mdm/checkin or POST /mdm/command (kind "checkin" or "command")
\* handled by the router built with service
DeviceRequest(service, headers, body, kind, obs) ==
    \E h \in {handler(service, DB, headers, body, kind)} :
    LET r == h.r
        parsed == parse_message(body, kind)
        msg == Unwrap(parsed)
        op == IF IsSome(parsed) THEN msg.message_type ELSE "Unparsed"
        eid == IF IsSome(parsed) THEN resolve(msg.enrollment) ELSE None
        id == IF IsSome(eid) THEN Some(Unwrap(eid).id) ELSE None
        cert == extract_certificate(headers).cert
        inner == \E i \in DOMAIN r.calls : r.calls[i] = "NanoMdm"
        polled == op = "CommandReport" /\ inner /\ IsSome(id)
        fetched == IF IsSome(r.queued) THEN Unwrap(r.queued).uuid ELSE 0
        detail == "args" \in obs /\ IsSome(parsed)
    IN /\ Commit(r.st)
       /\ IF "last" \in obs
          THEN last' = Completed(op, id, cert, h.status, r.err, r.calls,
                                 IF detail THEN ArgsOf(msg) ELSE <<>>,
                                 IF detail THEN OutOf(msg, h) ELSE <<>>)
          ELSE UNCHANGED last
       /\ IF "lifecycle" \in obs /\ IsSome(id) /\ r.ok /\ inner
             /\ op \in LifecycleMessages
          THEN ObserveLifecycle(msg, Unwrap(id), cert, obs)
          ELSE UNCHANGED <<lifecycle, session_cert>>
       /\ IF "deliveries" \in obs /\ polled
          THEN ObservePoll(Unwrap(id), msg, Named(commands, Unwrap(id), msg), fetched, obs)
          ELSE UNCHANGED <<delivered, ever_delivered, unsolicited, acknowledged>>
       /\ UNCHANGED <<issued, polls>>

\* history after an operator request inserted rows and was answered command_uuid
ObserveEnqueue(st, command_uuid, obs) ==
    LET new == RowUuids(st.commands) \ RowUuids(commands)
    IN /\ IF "issued" \in obs
          THEN issued' = [u \in DOMAIN issued \cup new |->
                            IF u \in new THEN command_uuid ELSE issued[u]]
          ELSE UNCHANGED issued
       /\ IF "deliveries" \in obs
          THEN delivered' = [u \in DOMAIN delivered \cup new |->
                                IF u \in new THEN 0 ELSE delivered[u]]
          ELSE UNCHANGED delivered
       /\ UNCHANGED <<lifecycle, session_cert, ever_delivered, unsolicited,
                      acknowledged, polls>>

\* POST /v1/enqueue/{ids} with a command plist (api::enqueue_handler)
EnqueueRequest(ids, body, obs) ==
    \E e \in {enqueue_inner(DB, ids, body)} :
       /\ clock + Len(ids) <= MaxRows
       /\ Commit(e.st)
       /\ IF "last" \in obs
          THEN last' = Completed("Enqueue", None, None, IF e.ok THEN 200 ELSE 500,
                                 IF e.ok THEN "" ELSE ERR_PARSE, <<>>,
                                 IF "ids" \in obs THEN ids ELSE <<>>,
                                 IF "args" \in obs THEN <<e.command_uuid>> ELSE <<>>)
          ELSE UNCHANGED last
       /\ ObserveEnqueue(e.st, e.command_uuid, obs)

\* POST /api/focus/policy/{device_id} (focus_server::api::set_policy)
SetPolicyRequest(device_id, obs) ==
    \E e \in {set_policy(DB, device_id)} :
       /\ clock + 1 <= MaxRows
       /\ Commit(e.st)
       /\ IF "last" \in obs
          THEN last' = Completed("SetPolicy", Some(device_id), None, 200, "", <<>>, <<>>,
                                 IF "args" \in obs THEN <<e.command_uuid>> ELSE <<>>)
          ELSE UNCHANGED last
       /\ ObserveEnqueue(e.st, e.command_uuid, obs)

\* PushService::push_by_ids called with the device EnrollIds of the id strings ids;
\* last keeps the ids requested and the infos pushed
PushRequest(ids, obs) ==
    /\ last' = Completed("push_by_ids", None, None, 0, "", <<>>, ids,
                         push_by_ids(DB, {DeviceId(s) : s \in ids}))
    /\ UNCHANGED <<enrollments, commands, bootstrap_tokens, cert_auth, uuid_src, clock,
                   lifecycle, delivered, ever_delivered, unsolicited, issued,
                   acknowledged, session_cert, polls, agent, watchdog, cli,
                   network>>

\* an Authenticate to POST /mdm/checkin whose statement k + 1 fails
FailingAuthenticateRequest(service, headers, msg, k, obs) ==
    LET req == Request(resolve(msg.enrollment), extract_certificate(headers).cert)
        stmts == authenticate_statements(service, req)
        r == Err(ExecuteUpTo(DB, stmts, k, req, msg), ERR_STORE, <<service>>)
    IN /\ extract_certificate(headers).ok
       /\ k < Len(stmts)
       /\ Commit(r.st)
       /\ last' = Completed("Authenticate",
                            IF IsSome(req.enroll_id) THEN Some(Unwrap(req.enroll_id).id)
                            ELSE None,
                            req.certificate, http_status(r), r.err, r.calls, <<>>, <<>>)
       /\ UNCHANGED <<lifecycle, session_cert, delivered, ever_delivered, unsolicited,
                      acknowledged, issued, polls>>

\* POST /v1/enqueue/{ids} whose enqueue_command for the id at position k + 1 fails
FailingEnqueueRequest(ids, body, k, obs) ==
    \E st \in {EnqueueEach(DB, SubSeq(ids, 1, k), 1, body)} :
       /\ IsSome(plist_from_bytes(body))
       /\ k < Len(ids)
       /\ clock + k <= MaxRows
       /\ Commit(st)
       /\ last' = Completed("Enqueue", None, None, 500, ERR_STORE, <<>>, <<>>, <<>>)
       /\ ObserveEnqueue(st, 0, obs)

\* the tasks that handle command polls at the same time in SpecPar
Pollers == {1, 2}

\* a task with no command poll in hand
NotPolling == [pc |-> "idle", id |-> None, fetched |-> 0]

----------------------------------------------------------------------------
(* The device side: applications, policies and the two enforcers *)

Finder == "com.apple.finder"
Dock == "com.apple.dock"
Twitter == "com.twitter.twitter"
Terminal == "com.apple.Terminal"

\* an application process as lsappinfo reports it
App(bundle_id, pid) == [bundle_id |-> bundle_id, pid |-> pid]

\* the application processes that can run on the machine
Processes == {App(Twitter, 101), App(Twitter, 102), App(Finder, 201), App(Terminal, 301)}

\* apps.mode with apps.allowed of the config; AppPolicy::Allowlist / Blocklist { apps }
Policies ==
    {[mode |-> "allowlist", apps |-> {Terminal}],
     [mode |-> "blocklist", apps |-> {Twitter}]}

\* SYSTEM_ESSENTIALS of AppPolicy::is_allowed (focus agent)
SYSTEM_ESSENTIALS ==
    {Dock, Finder, "com.apple.loginwindow", "com.apple.SecurityAgent",
     "com.apple.WindowManager", "com.apple.systemuiserver", "com.apple.controlcenter",
     "com.apple.notificationcenterui"}

\* SYSTEM_ESSENTIALS of Config::is_app_allowed (moonstone daemon)
CONFIG_SYSTEM_ESSENTIALS ==
    {"com.apple.loginwindow", "com.apple.SecurityAgent", Dock, "com.apple.WindowManager",
     "com.apple.notificationcenterui", "com.apple.Spotlight"}

\* the match on the mode: the list names the app (allowlist) or does not (blocklist)
permits(policy, bundle_id) ==
    IF policy.mode = "allowlist" THEN bundle_id \in policy.apps
    ELSE bundle_id \notin policy.apps

\* is_allowed without the system essentials
is_allowed_by_list_only(policy, bundle_id) == permits(policy, bundle_id)

\* AppPolicy::is_allowed
is_allowed(policy, bundle_id) ==
    bundle_id \in SYSTEM_ESSENTIALS \/ permits(policy, bundle_id)

\* Config::is_app_allowed
is_app_allowed(policy, bundle_id) ==
    bundle_id \in CONFIG_SYSTEM_ESSENTIALS \/ permits(policy, bundle_id)

\* accessibility::get_pids_for_bundle over the running processes
get_pids_for_bundle(procs, bundle_id) == {p \in procs : p.bundle_id = bundle_id}

\* what the last step of the device side did: its name, the frontmost application it
\* read and the processes it sent SIGKILL
Did(step, frontmost, signalled) ==
    [step |-> step, frontmost |-> frontmost, signalled |-> signalled]

\* the processes in killed sent SIGKILL by a step that read frontmost
Kill(a, step, frontmost, killed) ==
    [a EXCEPT !.procs = @ \ killed, !.did = Did(step, frontmost, killed)]

\* Enforcer::enforce_once with get_frontmost_app giving frontmost
enforce_once(a, frontmost) ==
    IF ~a.blocked
    THEN [a EXCEPT !.recently_killed = {}, !.did = Did("tick", None, {})]
    ELSE IF ~IsSome(frontmost) \/ is_app_allowed(a.policy, Unwrap(frontmost).bundle_id)
    THEN [a EXCEPT !.did = Did("tick", frontmost, {})]
    ELSE [Kill(a, "tick", frontmost,
               {Unwrap(frontmost)}
                   \cup get_pids_for_bundle(a.procs, Unwrap(frontmost).bundle_id))
            EXCEPT !.recently_killed = @ \cup {Unwrap(frontmost).bundle_id}]

\* Enforcer::kill_all_blocked
kill_all_blocked(a) ==
    IF ~a.blocked THEN [a EXCEPT !.did = Did("start", None, {})]
    ELSE Kill(a, "start", None,
              {p \in a.procs : ~is_app_allowed(a.policy, p.bundle_id) /\ p.bundle_id # ""})

\* AppEnforcer::kill_app on the bundle id of frontmost
kill_app(a, frontmost) ==
    LET bundle_id == Unwrap(frontmost).bundle_id
        killed == Kill(a, "enforce", frontmost, get_pids_for_bundle(a.procs, bundle_id))
    IN IF bundle_id \in a.recently_killed THEN [a EXCEPT !.did = Did("enforce", frontmost, {})]
       ELSE [killed EXCEPT !.recently_killed =
                IF Cardinality(@ \cup {bundle_id}) > 10 THEN {} ELSE @ \cup {bundle_id}]

\* AppEnforcer::enforce with get_frontmost_app giving frontmost
enforce(a, frontmost) ==
    IF ~a.blocked
    THEN [a EXCEPT !.recently_killed = {}, !.did = Did("enforce", None, {})]
    ELSE IF IsSome(frontmost) /\ ~is_allowed(a.policy, Unwrap(frontmost).bundle_id)
    THEN kill_app(a, frontmost)
    ELSE [a EXCEPT !.did = Did("enforce", frontmost, {})]

\* (mutation of daemon_tick: emergency_disabled is not read)
daemon_tick_ignores_flag(a, frontmost, enable_ok) ==
    IF ~a.running
    THEN [a EXCEPT !.pc = "exited", !.rules_active = FALSE, !.did = Did("tick", None, {})]
    ELSE LET e == enforce_once(a, frontmost)
         IN IF e.blocked THEN [e EXCEPT !.rules_active = @ \/ enable_ok]
            ELSE [e EXCEPT !.rules_active = FALSE]

\* the branch of the daemon's main loop taken when the 100 ms sleep completes, with
\* enable_ok telling whether enable_blocking loads the packet-filter rules
daemon_tick(a, frontmost, enable_ok) ==
    IF ~a.running
    THEN [a EXCEPT !.pc = "exited", !.rules_active = FALSE, !.did = Did("tick", None, {})]
    ELSE IF a.emergency_disabled
    THEN [a EXCEPT !.did = Did("tick", None, {})]
    ELSE LET e == enforce_once(a, frontmost)
         IN IF e.blocked
            THEN [e EXCEPT !.rules_active = @ \/ enable_ok]
            ELSE IF e.rules_active
            THEN [e EXCEPT !.rules_active = FALSE, !.emergency_disabled = FALSE]
            ELSE e

\* the branch of the daemon's main loop taken when an IPC message is received
daemon_message(a, msg) ==
    CASE msg = "Shutdown" -> [a EXCEPT !.running = FALSE, !.did = Did(msg, None, {})]
      [] msg = "EmergencyDisable" ->
            [a EXCEPT !.emergency_disabled = TRUE, !.rules_active = FALSE,
                      !.did = Did(msg, None, {})]
      [] OTHER -> [a EXCEPT !.did = Did(msg, None, {})]

\* an agent process in state pc under policy with the schedule blocked or not and
\* the processes procs running; inbox is the channel of IPC messages received and
\* not yet handled, sleep_left the time left of the sleep of the main loop's select
\* (both used where the loop is modelled with its timing)
Agent(pc, policy, blocked, procs) ==
    [pc |-> pc, running |-> TRUE, policy |-> policy, blocked |-> blocked,
     emergency_disabled |-> FALSE, rules_active |-> FALSE, procs |-> procs,
     recently_killed |-> {}, did |-> Did("", None, {}), inbox |-> <<>>,
     sleep_left |-> 0]

\* a watchdog process in state pc with hardcore.on_tamper of the config: the
\* heartbeat loop's consecutive_failures, the outcomes of its latest sends (TRUE for
\* Ok), the heartbeat ticks taken since the agent stopped, the running flag and the
\* calls of trigger_tamper_response with the commands each spawned
Watchdog(pc, on_tamper) ==
    [pc |-> pc, on_tamper |-> on_tamper, consecutive_failures |-> 0, sends |-> <<>>,
     ticks_since_stop |-> 0, running |-> TRUE, tamper_responses |-> <<>>]

\* the CLI in state pc of cmd_emergency_disable with hardcore.emergency_disable_challenge
\* of the config as duration: the time elapsed since the challenge started, the
\* consecutive errors, the challenge strings echoed correctly so far (counted up to
\* MaxCorrect) and what run_challenge returned
Cli(pc, duration) ==
    [pc |-> pc, duration |-> duration, elapsed |-> 0, consecutive_errors |-> 0,
     correct |-> 0, result |-> None]

\* a pf rule "<action> out quick ... to <to>": pass or block, and the destinations
\* it names
Rule(action, to) == [action |-> action, to |-> to]

\* block drop out quick proto { tcp, udp } all
BLOCK_ALL == Rule("block", {"all"})

\* the rules every rule set starts with: loopback, DNS, DHCP
BASE_RULES == <<Rule("pass", {"lo0"}), Rule("pass", {"port 53"}), Rule("pass", {"port 67", "port 68"})>>

\* the CIDR ranges the Allowlist rule set always passes
ALLOWLIST_RANGES ==
    <<Rule("pass", {"140.82.112.0/20"}), Rule("pass", {"185.199.108.0/22"}),
      Rule("pass", {"192.30.252.0/22"}), Rule("pass", {"17.0.0.0/8"}),
      Rule("pass", {"23.0.0.0/8"}), Rule("pass", {"104.64.0.0/10"})>>

\* the CIDR ranges the Blocklist rule set always blocks
BLOCKLIST_RANGES ==
    <<Rule("block", {"104.244.42.0/24"}), Rule("block", {"104.244.43.0/24"}),
      Rule("block", {"142.250.0.0/16"}), Rule("block", {"157.240.0.0/16"}),
      Rule("block", {"31.13.24.0/21"}), Rule("block", {"31.13.64.0/18"}),
      Rule("block", {"151.101.0.0/16"})>>

\* a NetworkBlocker of a daemon whose config has websites.allowed = allowed, with the
\* parts of the system it acts on: the rules loaded in the anchor com.moonstone,
\* the rules file (None when there is none), and what enable_blocking returned
\* when it was last called by the tick ("" when the tick did not call it).  The mode
\* is the one NetworkBlocker::new sets: the daemon never calls set_mode or
\* resolve_blocked_domains, and the blocked addresses of a Blocklist rule set, one
\* rule each in the code, stand in one rule here
NetworkBlocker(allowed, anchor, rules_file) ==
    [allowed |-> allowed, allowed_ips |-> {}, blocked_ips |-> {}, mode |-> "allowlist",
     rules_active |-> FALSE, anchor |-> anchor, rules_file |-> rules_file,
     enabled |-> ""]

\* no daemon with a NetworkBlocker in the model
NoNetwork == NetworkBlocker({}, <<>>, None)

\* (mutation of resolve_allowed_domains: a domain that fails to resolve empties
\* the set)
resolve_allowed_domains_all_or_nothing(n, dns) ==
    [n EXCEPT !.allowed_ips =
        IF \E d \in n.allowed : dns[d] = {} THEN {}
        ELSE UNION {dns[d] : d \in n.allowed}]

\* NetworkBlocker::resolve_allowed_domains on websites.allowed, dns[d] being the
\* addresses to_socket_addrs gives for d, none when the resolution fails
resolve_allowed_domains(n, dns) ==
    [n EXCEPT !.allowed_ips = UNION {dns[d] : d \in n.allowed}]

\* NetworkBlocker::generate_rules
generate_rules(n) ==
    IF n.mode = "allowlist"
    THEN BASE_RULES \o ALLOWLIST_RANGES
         \o (IF n.allowed_ips # {} THEN <<Rule("pass", n.allowed_ips)>> ELSE <<>>)
         \o <<BLOCK_ALL>>
    ELSE BASE_RULES \o BLOCKLIST_RANGES
         \o (IF n.blocked_ips # {} THEN <<Rule("block", n.blocked_ips)>> ELSE <<>>)
         \o <<Rule("pass", {"all"})>>

\* NetworkBlocker::enable_blocking, write_ok telling whether the rules file can be
\* written and load_ok whether pfctl -f loads it
enable_blocking(n, write_ok, load_ok) ==
    IF n.mode = "allowlist" /\ n.allowed_ips = {} THEN [n EXCEPT !.enabled = "Ok"]
    ELSE IF ~write_ok THEN [n EXCEPT !.enabled = "Err"]
    ELSE IF ~load_ok
    THEN [n EXCEPT !.rules_file = Some(generate_rules(n)), !.enabled = "Err"]
    ELSE [n EXCEPT !.rules_file = Some(generate_rules(n)), !.anchor = generate_rules(n),
                   !.rules_active = TRUE, !.enabled = "Ok"]

\* (mutation of disable_blocking: the flush and the removal are done whatever
\* rules_active says)
disable_blocking_always(n) ==
    [n EXCEPT !.anchor = <<>>, !.rules_file = None, !.rules_active = FALSE]

\* NetworkBlocker::disable_blocking, pfctl -F flushing the anchor
disable_blocking(n) ==
    IF ~n.rules_active THEN n
    ELSE [n EXCEPT !.anchor = <<>>, !.rules_file = None, !.rules_active = FALSE]

\* no device in the model: the specifications of the server
NoDevice == agent = Agent("off", [mode |-> "blocklist", apps |-> {}], FALSE, {})
            /\ watchdog = Watchdog("off", "sleep")
            /\ cli = Cli("off", 0)
            /\ network = NoNetwork

\* the database after SqliteStorage::new and run_migrations, before any request
InitStore ==
    /\ enrollments = <<>>
    /\ commands = <<>>
    /\ bootstrap_tokens = <<>>
    /\ cert_auth = {}
    /\ uuid_src = 0
    /\ clock = 0
    /\ lifecycle = [s \in Ids |-> NoLifecycle]
    /\ delivered = <<>>
    /\ ever_delivered = {}
    /\ unsolicited = {}
    /\ issued = <<>>
    /\ acknowledged = {}
    /\ session_cert = [s \in Ids |-> <<>>]
    /\ polls = [t \in Pollers |-> NotPolling]

\* the server before any request
Init == InitStore /\ last = NoRequest /\ NoDevice

----------------------------------------------------------------------------
(* Inputs of the requests *)

NoEnrollment == Enrollment(None, None, None, None)
NoMessage == Message("", NoEnrollment, "", <<>>, "", <<>>, 0, "")

AuthenticateMessages(topics) ==
    {Message("Authenticate", e, t, <<>>, "", <<>>, 0, "") :
        e \in RawEnrollments, t \in topics}

TokenUpdateMessages(topics, magics) ==
    {Message("TokenUpdate", e, m[1], m[2], m[3], <<>>, 0, "") :
        e \in RawEnrollments, m \in topics \X PushTokens \X magics}

PlainMessages(types) ==
    {Message(m[1], m[2], "", <<>>, "", <<>>, 0, "") : m \in types \X RawEnrollments}

SetBootstrapTokenMessages ==
    {Message("SetBootstrapToken", m[1], "", <<>>, "", m[2], 0, "") :
        m \in RawEnrollments \X BootstrapTokens}

\* the CommandUUID values a report can carry that the store can tell apart: the
\* empty string, the uuid of each row, the CommandUUID inside each queued command
ReportUuids ==
    {0} \cup RowUuids(commands)
        \cup {commands[i].command.command.command_uuid : i \in DOMAIN commands}

CommandReports ==
    {Message("CommandReport", m[1], "", <<>>, "", <<>>, m[2], m[3]) :
        m \in RawEnrollments \X ReportUuids \X CommandStatuses}

Body(kind, msg) == [kind |-> kind, msg |-> msg]
Garbage == Body("garbage", NoMessage)

CommandBodies ==
    {serialize_command([command_uuid |-> u, request_type |-> "DeviceInformation"]) :
        u \in OperatorUuids}
    \cup {[kind |-> "garbage", command |-> [command_uuid |-> 0, request_type |-> ""]]}

IdLists == {<<s>> : s \in Ids} \cup {<<"A", "B">>}

NoHeaders == Headers(FALSE, None)
\* no certificate: no header, an Mdm-Signature header, a malformed header
HeadersWithoutCert ==
    {NoHeaders, Headers(TRUE, None), Headers(FALSE, Some(CertHeader(FALSE, <<>>)))}
HeadersWithCert(certs) == {Headers(FALSE, Some(CertHeader(TRUE, c))) : c \in certs}

----------------------------------------------------------------------------
(* The requests of the specifications.  Each takes the service the MDM       *)
(* router was built with, the headers the devices send, the values the       *)
(* messages carry and the history to keep.                                   *)

Authenticate(service, headers, topics, obs) ==
    \E m \in AuthenticateMessages(topics), h \in headers :
        DeviceRequest(service, h, Body("checkin", m), "checkin", obs)

TokenUpdate(service, headers, topics, magics, obs) ==
    \E m \in TokenUpdateMessages(topics, magics), h \in headers :
        DeviceRequest(service, h, Body("checkin", m), "checkin", obs)

CheckOut(service, headers, obs) ==
    \E m \in PlainMessages({"CheckOut"}), h \in headers :
        DeviceRequest(service, h, Body("checkin", m), "checkin", obs)

OtherCheckin(service, headers, obs) ==
    \E m \in PlainMessages({"UserAuthenticate", "GetBootstrapToken",
                             "DeclarativeManagement", "GetToken"})
                \cup SetBootstrapTokenMessages,
       h \in headers :
        DeviceRequest(service, h, Body("checkin", m), "checkin", obs)

CommandPoll(service, headers, statuses, obs) ==
    \E m \in {r \in CommandReports : r.status \in statuses}, h \in headers :
        DeviceRequest(service, h, Body("command", m), "command", obs)

Unparsed(service, obs) == DeviceRequest(service, NoHeaders, Garbage, "checkin", obs)

Enqueue(idlists, obs) ==
    \E ids \in idlists, body \in CommandBodies : EnqueueRequest(ids, body, obs)

SetPolicy(obs) == \E device_id \in Ids : SetPolicyRequest(device_id, obs)

FailingAuthenticate(service, headers, topics, obs) ==
    \E m \in AuthenticateMessages(topics), h \in headers, k \in 0..3 :
        FailingAuthenticateRequest(service, h, m, k, obs)

FailingEnqueue(idlists, obs) ==
    \E ids \in idlists, body \in CommandBodies, k \in 0..1 :
        FailingEnqueueRequest(ids, body, k, obs)

Push(obs) == \E ids \in SUBSET Ids : PushRequest(ids, obs)

----------------------------------------------------------------------------
(* SpecQueue: the command queue of the server as focus-server's main        *)
(* assembles it (NanoMdm behind the MDM router, the API router and the      *)
(* focus router on one store): operators enqueue, devices poll and report,  *)
(* and a device may authenticate again.                                     *)

QueueObs == {"deliveries", "issued"}

NextQueue ==
    \/ Authenticate("NanoMdm", {NoHeaders}, {T1}, QueueObs)
    \/ CommandPoll("NanoMdm", {NoHeaders}, CommandStatuses, QueueObs)
    \/ Enqueue(IdLists, QueueObs)
    \/ SetPolicy(QueueObs)

SpecQueue == Init /\ [][NextQueue]_vars

\* C2: a command is dispatched at most once: no row of the queue is returned by two
\* polls without a result having been stored for it in between (the second poll of
\* two that report nothing gets an empty response).
C2_DispatchedAtMostOnce == \A u \in DOMAIN delivered : delivered[u] <= 1

C5_UuidEndToEnd ==
    \A i \in DOMAIN commands :
        /\ plist_from_bytes(commands[i].command)
              = Some([plist_from_bytes(commands[i].command)[1]
                        EXCEPT !.command_uuid = issued[commands[i].uuid]])
        /\ commands[i].uuid \in acknowledged => commands[i].status = "Acknowledged"

----------------------------------------------------------------------------
(* SpecCheckin: the enrollment lifecycle on the assembled server: devices    *)
(* send check-in messages of every type to POST /mdm/checkin.                *)

CheckinObs == {"last", "args", "lifecycle"}

NextCheckin ==
    \/ Authenticate("NanoMdm", {NoHeaders}, Topics, CheckinObs)
    \/ TokenUpdate("NanoMdm", {NoHeaders}, Topics, PushMagics, CheckinObs)
    \/ CheckOut("NanoMdm", {NoHeaders}, CheckinObs)
    \/ OtherCheckin("NanoMdm", {NoHeaders}, CheckinObs)
    \/ Unparsed("NanoMdm", CheckinObs)

SpecCheckin == Init /\ [][NextCheckin]_vars

\* C9: after a TokenUpdate of an id that has been authenticated, the id is not
\* disabled and get_push_info gives the token and push_magic of that TokenUpdate
\* with the topic of the enrollment (the topic of its last Authenticate).
C9_TokenUpdateEnables ==
    (/\ last.op = "TokenUpdate"
     /\ last.status = 200
     /\ IsSome(last.id)
     /\ lifecycle[Unwrap(last.id)].authenticated)
    => /\ ~is_disabled(DB, DeviceId(Unwrap(last.id)))
       /\ get_push_info(DB, DeviceId(Unwrap(last.id)))
            = Some([token |-> last.args[1], push_magic |-> last.args[2],
                    topic |-> lifecycle[Unwrap(last.id)].topic])

\* a TokenUpdate carrying push magic M2 has just completed for an id that was
\* authenticated under topic T2
C9_Witness ==
    /\ last.op = "TokenUpdate"
    /\ last.status = 200
    /\ IsSome(last.id)
    /\ lifecycle[Unwrap(last.id)].authenticated
    /\ lifecycle[Unwrap(last.id)].topic = "com.apple.mgmt.T2"
    /\ last.args[2] = "M2"

\* C10: an id is disabled whenever its most recent lifecycle message was Authenticate
\* (no TokenUpdate since) or CheckOut, and whenever it was never authenticated.
C10_DisabledUnlessTokenUpdate ==
    \A s \in Ids :
        (\/ ~lifecycle[s].authenticated
         \/ lifecycle[s].recent \in {"Authenticate", "CheckOut"})
        => is_disabled(DB, DeviceId(s))

\* an id that was enabled by a TokenUpdate has since checked out
C10_Witness ==
    \E s \in Ids :
        /\ lifecycle[s].recent = "CheckOut"
        /\ lifecycle[s].authenticated
        /\ s \in DOMAIN enrollments
        /\ IsSome(enrollments[s].push_token)

\* C13: a device request that fails is answered by the kind of its error: 400 when
\* the message resolves to no identity or the body does not parse, 401 when the
\* certificate check fails, 500 otherwise; and the body of the answer is empty.
C13_StatusByErrorKind ==
    (last.op # "" /\ last.status # 200)
    => /\ last.status =
            CASE last.err \in {ERR_UNRESOLVED, ERR_PARSE} -> 400
              [] last.err \in {ERR_NO_CERT, ERR_NOT_AUTHORIZED} -> 401
              [] OTHER -> 500
       /\ last.out = None

----------------------------------------------------------------------------
(* SpecReenroll: enrollments with a command queue on the assembled server:   *)
(* devices authenticate, update their token, check out, poll and report;     *)
(* operators enqueue.                                                        *)

ReenrollObs == {"last"}

NextReenroll ==
    \/ Authenticate("NanoMdm", {NoHeaders}, {T1}, ReenrollObs)
    \/ TokenUpdate("NanoMdm", {NoHeaders}, {T1}, {"M1"}, ReenrollObs)
    \/ CheckOut("NanoMdm", {NoHeaders}, ReenrollObs)
    \/ CommandPoll("NanoMdm", {NoHeaders}, {"Acknowledged", "Idle"}, ReenrollObs)
    \/ Enqueue(IdLists, ReenrollObs)

SpecReenroll == Init /\ [][NextReenroll]_vars

\* C1: once an Authenticate of id has completed, the command queue of id has no
\* rows and id is disabled, whatever was enqueued, reported or checked in before.
C1_AuthenticateClearsQueue ==
    (last.op = "Authenticate" /\ last.status = 200 /\ IsSome(last.id))
    => /\ RowsOf(commands, Unwrap(last.id)) = {}
       /\ is_disabled(DB, DeviceId(Unwrap(last.id)))

\* an Authenticate has just completed for an id that a TokenUpdate had enabled;
\* rows of the queue have been deleted and a row of another id is still queued
C1_Witness ==
    /\ last.op = "Authenticate"
    /\ last.status = 200
    /\ IsSome(last.id)
    /\ IsSome(enrollments[Unwrap(last.id)].push_token)
    /\ Len(commands) >= 1
    /\ clock > Len(commands)

----------------------------------------------------------------------------
(* SpecCertAuth: the MDM router built on CertAuthService wrapping NanoMdm   *)
(* (mdm_service::CertAuthService::new(store, NanoMdm::new(store))): devices *)
(* present client certificates, or none, with every message.                *)

CertAuthObs == {"last"}

AnyHeaders == {NoHeaders} \cup HeadersWithCert({CertA, CertB})

NextCertAuth ==
    \/ Authenticate("CertAuthService", AnyHeaders, {T1}, CertAuthObs)
    \/ TokenUpdate("CertAuthService", AnyHeaders, {T1}, {"M1"}, CertAuthObs)
    \/ CheckOut("CertAuthService", AnyHeaders, CertAuthObs)
    \/ OtherCheckin("CertAuthService", AnyHeaders, CertAuthObs)
    \/ CommandPoll("CertAuthService", AnyHeaders, {"Acknowledged", "Idle"}, CertAuthObs)

SpecCertAuth == Init /\ [][NextCertAuth]_vars

\* C6: under the cert-auth wrapper a message other than Authenticate reaches the
\* inner service only if the request has a resolved id and a certificate whose hash
\* is bound to that id; otherwise the wrapper's operation fails with its
\* authorization error, the inner service is not invoked and the store is unchanged.
C6_OnlyBoundCertificatesPass ==
    [][(/\ last'.calls # <<>>
        /\ last'.calls[1] = "CertAuthService"
        /\ last'.op # "Authenticate")
       => LET bound == /\ IsSome(last'.id)
                       /\ IsSome(last'.cert)
                       /\ has_cert_auth(DB, DeviceId(Unwrap(last'.id)),
                                        cert_hash(Unwrap(last'.cert)))
              inner == \E k \in DOMAIN last'.calls : last'.calls[k] = "NanoMdm"
          IN /\ inner => bound
             /\ ~bound => /\ ~inner
                          /\ last'.status # 200
                          /\ last'.err \in {ERR_UNRESOLVED, ERR_NO_CERT, ERR_NOT_AUTHORIZED}
                          /\ (IsSome(last'.id) =>
                                last'.err \in {ERR_NO_CERT, ERR_NOT_AUTHORIZED})
                          /\ DB' = DB]_vars

\* a CheckOut of an enabled enrollment was refused: it presented a certificate
\* whose hash is not bound to the id, which has another certificate bound
C6_Witness ==
    /\ last.op = "CheckOut"
    /\ last.err = ERR_NOT_AUTHORIZED
    /\ IsSome(last.id)
    /\ IsSome(last.cert)
    /\ \E p \in cert_auth : p[1] = Unwrap(last.id)
    /\ ~is_disabled(DB, DeviceId(Unwrap(last.id)))

\* C7: an Authenticate of id presented with a certificate makes
\* has_cert_auth(id, cert_hash(certificate)) true.
C7_AuthenticateBindsCertificate ==
    (last.op = "Authenticate" /\ IsSome(last.id) /\ IsSome(last.cert))
    => has_cert_auth(DB, DeviceId(Unwrap(last.id)), cert_hash(Unwrap(last.cert)))

\* an Authenticate presented with a certificate has just completed for an id that
\* already had the hash of another certificate bound
C7_Witness ==
    /\ last.op = "Authenticate"
    /\ last.status = 200
    /\ IsSome(last.id)
    /\ IsSome(last.cert)
    /\ \E p \in cert_auth :
          p[1] = Unwrap(last.id) /\ p[2] # cert_hash(Unwrap(last.cert))

----------------------------------------------------------------------------
(* SpecServer: the device-facing check-in endpoint of the server as          *)
(* focus-server's main assembles it (mdm_http::router over NanoMdm on the    *)
(* store), with devices that present client certificates in the header.      *)

ServerObs == {"last", "lifecycle", "certs"}

ServerHeaders == HeadersWithoutCert \cup HeadersWithCert({CertA, CertB})

NextServer ==
    \/ Authenticate("NanoMdm", ServerHeaders, {T1}, ServerObs)
    \/ TokenUpdate("NanoMdm", ServerHeaders, {T1}, {"M1"}, ServerObs)
    \/ CheckOut("NanoMdm", ServerHeaders, ServerObs)

SpecServer == Init /\ [][NextServer]_vars

\* C8: on the check-in endpoint of the assembled server, once an enrollment has
\* completed Authenticate and TokenUpdate with certificate C1 (and is enabled), a
\* CheckOut presented with another certificate is answered 401 and leaves the
\* enrollment enabled, and a CheckOut presented with C1 is answered 200 and
\* leaves it disabled.
C8_CheckOutNeedsEnrolledCertificate ==
    [][(/\ last'.op = "CheckOut"
        /\ IsSome(last'.id)
        /\ IsSome(last'.cert)
        /\ Len(session_cert[Unwrap(last'.id)]) = 2
        /\ ~is_disabled(DB, DeviceId(Unwrap(last'.id))))
       => IF Unwrap(last'.cert) # session_cert[Unwrap(last'.id)][1]
          THEN /\ last'.status = 401
               /\ ~is_disabled(DB', DeviceId(Unwrap(last'.id)))
          ELSE /\ last'.status = 200
               /\ is_disabled(DB', DeviceId(Unwrap(last'.id)))]_vars

----------------------------------------------------------------------------
(* SpecPar: command polls handled in parallel.  The router runs each request *)
(* as its own task on the multi-threaded runtime and every store operation   *)
(* takes a connection of the pool for one statement, so the store_result and *)
(* the next_command of one poll are separate steps between which the         *)
(* statements of another poll can run.                                       *)

\* command_handler up to and including the store_result of command_and_report_results
PollBegin(t) ==
    \E m \in {r \in CommandReports : r.status \in {"Acknowledged", "Idle"}} :
        /\ polls[t].pc = "idle"
        /\ IsSome(require_enroll_id(Request(resolve(m.enrollment), None)))
        /\ Commit(nanomdm_report(DB, Unwrap(resolve(m.enrollment)), m))
        /\ polls' = [polls EXCEPT ![t] = [pc |-> "reported",
                                          id |-> resolve(m.enrollment),
                                          fetched |-> 0]]
        /\ UNCHANGED <<last, lifecycle, delivered, ever_delivered, unsolicited, issued,
                       acknowledged, session_cert>>

\* the next_command of command_and_report_results
PollFetch(t) ==
    /\ polls[t].pc = "reported"
    /\ \E r \in {nanomdm_poll(DB, Unwrap(polls[t].id))} :
          polls' = [polls EXCEPT ![t].pc = "fetched",
                                 ![t].fetched = IF IsSome(r.queued)
                                                THEN Unwrap(r.queued).uuid ELSE 0]
    /\ UNCHANGED <<enrollments, commands, bootstrap_tokens, cert_auth, uuid_src, clock,
                   last, lifecycle, delivered, ever_delivered, unsolicited, issued,
                   acknowledged, session_cert, agent, watchdog, cli,
                   network>>

\* the response of command_handler: the command fetched, or an empty body
PollRespond(t) ==
    /\ polls[t].pc = "fetched"
    /\ polls' = [polls EXCEPT ![t] = NotPolling]
    /\ UNCHANGED <<enrollments, commands, bootstrap_tokens, cert_auth, uuid_src, clock,
                   last, lifecycle, delivered, ever_delivered, unsolicited, issued,
                   acknowledged, session_cert, agent, watchdog, cli,
                   network>>

NextPar ==
    \/ \E t \in Pollers : PollBegin(t)
    \/ \E t \in Pollers : PollFetch(t)
    \/ \E t \in Pollers : PollRespond(t)
    \/ Enqueue(IdLists, {})

SpecPar == Init /\ [][NextPar]_vars

\* C3: two command polls of one enrollment that run in parallel never both receive
\* the same command: a Pending row fetched by one is not fetched by the other.
C3_ParallelPollsGetDifferentRows ==
    \A t1, t2 \in Pollers :
        (/\ t1 # t2
         /\ polls[t1].pc = "fetched"
         /\ polls[t2].pc = "fetched"
         /\ polls[t1].id = polls[t2].id
         /\ polls[t1].fetched # 0)
        => polls[t1].fetched # polls[t2].fetched

----------------------------------------------------------------------------
(* SpecPush: the enrollment lifecycle on the assembled server together with  *)
(* a PushService on the same store that is asked to push to sets of ids.     *)

PushObs == {"last", "lifecycle"}

NextPush ==
    \/ Authenticate("NanoMdm", {NoHeaders}, Topics, PushObs)
    \/ TokenUpdate("NanoMdm", {NoHeaders}, {T1}, PushMagics, PushObs)
    \/ CheckOut("NanoMdm", {NoHeaders}, PushObs)
    \/ OtherCheckin("NanoMdm", {NoHeaders}, PushObs)
    \/ Push(PushObs)

SpecPush == Init /\ [][NextPush]_vars

\* C11: get_push_info gives a value for an id exactly when the id has been
\* authenticated and its most recent lifecycle message is a TokenUpdate, and every
\* info push_by_ids pushes is the push info of an id that was requested and is not
\* disabled.
C11_PushOnlyToEnabledRequested ==
    /\ \A s \in Ids :
          IsSome(get_push_info(DB, DeviceId(s)))
            <=> (lifecycle[s].authenticated /\ lifecycle[s].recent = "TokenUpdate")
    /\ last.op = "push_by_ids"
         => \A s \in DOMAIN last.out :
               /\ s \in last.args
               /\ ~is_disabled(DB, DeviceId(s))
               /\ get_push_info(DB, DeviceId(s)) = Some(last.out[s])

\* a push to A and B reaches A alone: B, which had a token, authenticated again
C11_Witness ==
    /\ last.op = "push_by_ids"
    /\ last.args = {"A", "B"}
    /\ DOMAIN last.out = {"A"}
    /\ "B" \in DOMAIN enrollments
    /\ IsSome(enrollments["B"].push_token)
    /\ lifecycle["B"].recent = "Authenticate"

----------------------------------------------------------------------------
(* SpecResolve: Enrollment::resolve applied to the raw enrollment fields of  *)
(* a message, for every combination of fields present.                       *)

\* values of one raw field: absent or one of some strings
Field(values) == {None} \cup {Some(v) : v \in values}

\* the raw enrollments a message can carry
FieldCombinations ==
    {Enrollment(f[1], f[2], f[3], f[4]) :
        f \in Field(Udids) \X Field({"U1", SHARED_IPAD_USER_ID})
                \X Field({"E1", "E2"}) \X Field({"V1", "V2"})}

\* a message with raw enrollment e has been deserialized
Deserialized(e) == Completed("Enrollment", None, None, 0, "", <<>>, e, <<>>)

InitResolve ==
    InitStore /\ NoDevice /\ \E e \in FieldCombinations : last = Deserialized(e)

\* the call of resolve on the enrollment of the message
Resolve ==
    /\ last.op = "Enrollment"
    /\ last' = [last EXCEPT !.op = "resolve", !.out = resolve(last.args)]
    /\ UNCHANGED <<enrollments, commands, bootstrap_tokens, cert_auth, uuid_src, clock,
                   lifecycle, delivered, ever_delivered, unsolicited, issued,
                   acknowledged, session_cert, polls, agent, watchdog, cli,
                   network>>

SpecResolve == InitResolve /\ [][Resolve]_vars

\* C12: resolve follows the table top-down: EnrollmentID with EnrollmentUserID gives
\* UserEnrollment, id "EID:EUID", parent EID; EnrollmentID without it gives
\* UserEnrollmentDevice, id EID, no parent, whatever UDID and UserID are; otherwise
\* UDID with the all-F UserID gives SharedIpad and with another UserID gives User
\* (the user channel), both id "UDID:UserID", parent UDID; UDID alone gives Device,
\* id UDID; and the result is None exactly when EnrollmentID and UDID are absent.
C12_ResolveFollowsTable ==
    last.op = "resolve" =>
        LET e == last.args
            r == last.out
            Is(type, id, parent) ==
                r = Some([enroll_type |-> type, id |-> id, parent_id |-> parent])
            eid == Unwrap(e.enrollment_id)
            euid == Unwrap(e.enrollment_user_id)
            udid == Unwrap(e.udid)
            uid == Unwrap(e.user_id)
        IN /\ (IsSome(e.enrollment_id) /\ IsSome(e.enrollment_user_id))
                => Is("UserEnrollment", eid \o ":" \o euid, Some(eid))
           /\ (IsSome(e.enrollment_id) /\ ~IsSome(e.enrollment_user_id))
                => Is("UserEnrollmentDevice", eid, None)
           /\ (~IsSome(e.enrollment_id) /\ IsSome(e.udid) /\ IsSome(e.user_id))
                => IF uid = SHARED_IPAD_USER_ID
                   THEN Is("SharedIpad", udid \o ":" \o uid, Some(udid))
                   ELSE Is("User", udid \o ":" \o uid, Some(udid))
           /\ (~IsSome(e.enrollment_id) /\ IsSome(e.udid) /\ ~IsSome(e.user_id))
                => Is("Device", udid, None)
           /\ r = None <=> (~IsSome(e.enrollment_id) /\ ~IsSome(e.udid))

\* a message with EnrollmentID, UDID and UserID but no EnrollmentUserID resolved to
\* the UserEnrollmentDevice of its EnrollmentID
C12_Witness ==
    /\ last.op = "resolve"
    /\ IsSome(last.args.enrollment_id)
    /\ ~IsSome(last.args.enrollment_user_id)
    /\ IsSome(last.args.udid)
    /\ IsSome(last.args.user_id)
    /\ IsSome(last.out)
    /\ Unwrap(last.out).enroll_type = "UserEnrollmentDevice"

----------------------------------------------------------------------------
(* SpecFaults: a router built on CertAuthService over NanoMdm with the API   *)
(* router on the same store, where a store call of an Authenticate or of an  *)
(* enqueue may fail.  Requests are handled one at a time.                    *)

FaultObs == {"last"}

FaultHeaders == {NoHeaders} \cup HeadersWithCert({CertA})

NextFaults ==
    \/ Authenticate("CertAuthService", FaultHeaders, {T1}, FaultObs)
    \/ TokenUpdate("CertAuthService", FaultHeaders, {T1}, {"M1"}, FaultObs)
    \/ Enqueue(IdLists, FaultObs)
    \/ FailingAuthenticate("CertAuthService", FaultHeaders, {T1}, FaultObs)
    \/ FailingEnqueue(IdLists, FaultObs)

SpecFaults == Init /\ [][NextFaults]_vars

\* C14: the two effects of store_authenticate are seen together: a step that empties
\* the command queue of an id that had rows leaves the id's enrollment row upserted
\* (present and disabled).
C14_StoreAuthenticateAtomic ==
    [][\A s \in Ids :
          (RowsOf(commands, s) # {} /\ RowsOf(commands', s) = {})
          => (s \in DOMAIN enrollments' /\ enrollments'[s].disabled)]_vars

\* C15: an Authenticate or an enqueue that is answered an error leaves the bootstrap
\* tokens, the certificate bindings, the command queue and the enrollments as they
\* were before the request.
C15_FailedRequestLeavesNoTrace ==
    [][(last'.op \in {"Authenticate", "Enqueue"} /\ last'.status # 200)
       => /\ bootstrap_tokens' = bootstrap_tokens
          /\ cert_auth' = cert_auth
          /\ commands' = commands
          /\ enrollments' = enrollments]_vars

----------------------------------------------------------------------------
(* SpecDaemon: the moonstone daemon from its start: its main loop takes a    *)
(* tick every 100 ms and handles the IPC messages received, while the clock  *)
(* moves the schedule in and out of block periods and applications are       *)
(* launched.  SpecDaemonFair adds that the daemon's steps and the clock's    *)
(* keep happening: the loop sleeps 100 ms at a time and time passes.         *)

\* a step of the device side that gives agent a and watchdog w
Device(a, w) ==
    /\ agent' = a
    /\ watchdog' = w
    /\ UNCHANGED <<enrollments, commands, bootstrap_tokens, cert_auth, uuid_src, clock,
                   last, lifecycle, delivered, ever_delivered, unsolicited, issued,
                   acknowledged, session_cert, polls, cli, network>>

\* the frontmost application get_frontmost_app can report
Frontmost == {None} \cup {Some(p) : p \in agent.procs}

\* main of the daemon up to the loop, after IpcServer::new
DaemonStart ==
    /\ agent.pc = "starting"
    /\ Device([kill_all_blocked(agent) EXCEPT !.pc = "running"], watchdog)

DaemonTick ==
    /\ agent.pc = "running"
    /\ \E frontmost \in Frontmost, enable_ok \in BOOLEAN :
          Device(daemon_tick(agent, frontmost, enable_ok), watchdog)

DaemonMessage ==
    /\ agent.pc = "running"
    /\ \E msg \in {"Heartbeat", "Status", "Shutdown", "EmergencyDisable"} :
          Device(daemon_message(agent, msg), watchdog)

\* the wall clock enters or leaves a block period of the schedule; periods last
\* longer than the 100 ms between ticks, so a running agent has taken a tick in
\* the period that ends
ScheduleFlip ==
    /\ agent.pc = "running" => agent.did.step \in {"tick", "enforce"}
    /\ Device([agent EXCEPT !.blocked = ~@, !.did = Did("flip", None, {})], watchdog)

\* the user opens an application
Launch ==
    \E p \in Processes \ agent.procs :
        Device([agent EXCEPT !.procs = @ \cup {p}, !.did = Did("launch", None, {})],
               watchdog)

InitDaemon ==
    /\ InitStore
    /\ last = NoRequest
    /\ cli = Cli("off", 0)
    /\ network = NoNetwork
    /\ watchdog = Watchdog("off", "sleep")
    /\ \E policy \in Policies, blocked \in BOOLEAN, procs \in SUBSET Processes :
          agent = Agent("starting", policy, blocked, procs)

NextDaemon == DaemonStart \/ DaemonTick \/ DaemonMessage \/ ScheduleFlip \/ Launch

SpecDaemon == InitDaemon /\ [][NextDaemon]_vars

SpecDaemonFair ==
    SpecDaemon /\ WF_vars(DaemonStart) /\ WF_vars(DaemonTick) /\ WF_vars(ScheduleFlip)

\* C16: a running daemon whose emergency-disable flag is set gets the flag cleared
\* again (or has exited), as the schedule keeps entering and leaving block periods.
C16_EmergencyDisableIsCleared ==
    (agent.pc = "running" /\ agent.emergency_disabled)
        ~> (~agent.emergency_disabled \/ agent.pc = "exited")

\* C20: a process is sent SIGKILL only while the schedule is blocked and only if its
\* bundle id is neither a system essential (com.apple.finder is one) nor permitted
\* by the app policy.
C20_KillOnlyBlockedApps ==
    \A p \in agent.did.signalled :
        /\ agent.blocked
        /\ p.bundle_id \notin SYSTEM_ESSENTIALS
        /\ ~permits(agent.policy, p.bundle_id)

----------------------------------------------------------------------------
(* SpecAppEnforcer: the focus agent's AppEnforcer called on every tick with  *)
(* the policy in force, while the schedule changes and applications are      *)
(* launched.                                                                 *)

AppEnforce ==
    /\ agent.pc = "running"
    /\ \E frontmost \in Frontmost : Device(enforce(agent, frontmost), watchdog)

InitAppEnforcer ==
    /\ InitStore
    /\ last = NoRequest
    /\ cli = Cli("off", 0)
    /\ network = NoNetwork
    /\ watchdog = Watchdog("off", "sleep")
    /\ \E policy \in Policies, blocked \in BOOLEAN, procs \in SUBSET Processes :
          agent = Agent("running", policy, blocked, procs)

NextAppEnforcer == AppEnforce \/ ScheduleFlip \/ Launch

SpecAppEnforcer == InitAppEnforcer /\ [][NextAppEnforcer]_vars

\* C19: at every tick taken while the schedule is active and enforcement is not
\* suspended, if the frontmost application's bundle id is neither a system essential
\* nor permitted by the policy, every running process of that bundle id is sent
\* SIGKILL, whether or not the bundle id was killed before in the period.
C19_BlockedFrontmostIsKilled ==
    [][(/\ agent'.did.step \in {"tick", "enforce"}
        /\ agent.blocked
        /\ ~agent.emergency_disabled
        /\ IsSome(agent'.did.frontmost)
        /\ Unwrap(agent'.did.frontmost).bundle_id \notin SYSTEM_ESSENTIALS
        /\ ~permits(agent.policy, Unwrap(agent'.did.frontmost).bundle_id))
       => get_pids_for_bundle(agent.procs, Unwrap(agent'.did.frontmost).bundle_id)
             \subseteq agent'.did.signalled]_vars

----------------------------------------------------------------------------
(* SpecWatchdog: the watchdog next to a running daemon: it waits, then sends *)
(* a heartbeat every 500 ms; the daemon may be stopped, a send may fail, and *)
(* the watchdog may be signalled to shut down.  SpecWatchdogFair adds that   *)
(* the watchdog's own steps keep happening: its timers fire and its main     *)
(* runs on.                                                                  *)

\* the failures in a row at which run_heartbeat_loop returns
HEARTBEAT_FAILURES == 4

TamperResponses == {"sleep", "shutdown", "lock"}

\* the latest HEARTBEAT_FAILURES outcomes of the sends, the newest last
Latest(sends) == IF Len(sends) > HEARTBEAT_FAILURES THEN Tail(sends) ELSE sends

\* (mutation of heartbeat_tick: an Ok heartbeat leaves consecutive_failures alone)
heartbeat_tick_no_reset(w, ok) ==
    IF ok THEN [w EXCEPT !.sends = Latest(Append(@, ok))]
    ELSE [w EXCEPT !.consecutive_failures = @ + 1,
                   !.sends = Latest(Append(@, ok)),
                   !.pc = IF w.consecutive_failures + 1 >= HEARTBEAT_FAILURES
                          THEN "returned" ELSE @]

\* one turn of the loop of IpcClient::run_heartbeat_loop, the send giving Ok or Err
heartbeat_tick(w, ok) ==
    IF ok THEN [w EXCEPT !.consecutive_failures = 0, !.sends = Latest(Append(@, ok))]
    ELSE [w EXCEPT !.consecutive_failures = @ + 1,
                   !.sends = Latest(Append(@, ok)),
                   !.pc = IF w.consecutive_failures + 1 >= HEARTBEAT_FAILURES
                          THEN "returned" ELSE @]

\* the commands trigger_tamper_response spawns, spawn_ok telling whether the first
\* spawn succeeds
trigger_tamper_response(response, spawn_ok) ==
    CASE response = "sleep" ->
            IF spawn_ok THEN <<"pmset sleepnow">>
            ELSE <<"pmset sleepnow", "pmset displaysleepnow">>
      [] response = "shutdown" ->
            IF spawn_ok THEN <<"shutdown -h now">>
            ELSE <<"shutdown -h now", "pmset sleepnow">>
      [] OTHER -> <<"pmset displaysleepnow">>

\* (mutation of should_trigger: the running flag is not read)
should_trigger_always(w) == TRUE

\* (mutation of should_trigger: the test of the running flag inverted)
should_trigger_inverted(w) == ~w.running

\* the test of main after the heartbeat loop returned: no shutdown signal was received
should_trigger(w) == w.running

\* main of the watchdog after run_heartbeat_loop returned
watchdog_finish(w, spawn_ok) ==
    IF should_trigger(w)
    THEN [w EXCEPT !.pc = "exited",
                   !.tamper_responses =
                        Append(@, trigger_tamper_response(w.on_tamper, spawn_ok))]
    ELSE [w EXCEPT !.pc = "exited"]

\* the sleep of 2 s at the start of main is over
WatchdogStart ==
    /\ watchdog.pc = "starting"
    /\ Device(agent, [watchdog EXCEPT !.pc = "heartbeat"])

\* the 500 ms interval fires; IpcClient::send connects when the daemon listens,
\* and may fail even then
HeartbeatTick ==
    /\ watchdog.pc = "heartbeat"
    /\ \E ok \in IF agent.pc = "running" THEN BOOLEAN ELSE {FALSE} :
          Device(agent,
                 [heartbeat_tick(watchdog, ok) EXCEPT !.ticks_since_stop =
                      IF agent.pc = "running" THEN 0 ELSE @ + 1])

\* SIGTERM or SIGINT delivered to the watchdog
WatchdogSignal ==
    /\ watchdog.pc \in {"starting", "heartbeat", "returned"}
    /\ watchdog.running
    /\ Device(agent, [watchdog EXCEPT !.running = FALSE])

WatchdogFinish ==
    /\ watchdog.pc = "returned"
    /\ \E spawn_ok \in BOOLEAN : Device(agent, watchdog_finish(watchdog, spawn_ok))

\* the daemon process is stopped
AgentStop ==
    /\ agent.pc = "running"
    /\ Device([agent EXCEPT !.pc = "exited", !.did = Did("stop", None, {})], watchdog)

InitWatchdog ==
    /\ InitStore
    /\ last = NoRequest
    /\ cli = Cli("off", 0)
    /\ network = NoNetwork
    /\ agent = Agent("running", [mode |-> "blocklist", apps |-> {}], FALSE, {})
    /\ \E on_tamper \in TamperResponses : watchdog = Watchdog("starting", on_tamper)

NextWatchdog ==
    WatchdogStart \/ HeartbeatTick \/ WatchdogSignal \/ WatchdogFinish \/ AgentStop

SpecWatchdog == InitWatchdog /\ [][NextWatchdog]_vars

SpecWatchdogFair ==
    SpecWatchdog /\ WF_vars(WatchdogStart) /\ WF_vars(HeartbeatTick)
                 /\ WF_vars(WatchdogFinish)

\* the heartbeat loop has returned HeartbeatMissed
TamperDeclared == watchdog.pc \in {"returned", "exited"}

\* C17: the heartbeat loop declares tamper exactly when its latest four sends all
\* failed; the count of failures is zero after a send that succeeded; and the loop
\* has declared tamper by the fourth tick taken after the daemon stopped.
C17_TamperAfterFourFailures ==
    /\ TamperDeclared
         <=> (/\ Len(watchdog.sends) = HEARTBEAT_FAILURES
              /\ \A i \in DOMAIN watchdog.sends : ~watchdog.sends[i])
    /\ (watchdog.sends # <<>> /\ watchdog.sends[Len(watchdog.sends)])
         => watchdog.consecutive_failures = 0
    /\ watchdog.ticks_since_stop <= HEARTBEAT_FAILURES
    /\ watchdog.ticks_since_stop = HEARTBEAT_FAILURES => TamperDeclared

\* tamper was declared at the fourth tick taken after the daemon stopped
C17_Witness ==
    /\ TamperDeclared
    /\ agent.pc = "exited"
    /\ watchdog.ticks_since_stop = HEARTBEAT_FAILURES

\* C18: trigger_tamper_response is never called twice, and once the daemon is
\* stopped a watchdog that has not been signalled to shut down calls it.
C18_TamperResponseExactlyOnce ==
    /\ [](Len(watchdog.tamper_responses) <= 1)
    /\ (agent.pc = "exited" /\ watchdog.pc \in {"starting", "heartbeat"})
         ~> (Len(watchdog.tamper_responses) = 1 \/ ~watchdog.running)

\* the daemon was stopped and the watchdog, never signalled, has called
\* trigger_tamper_response once and left
C18_Witness ==
    /\ agent.pc = "exited"
    /\ watchdog.running
    /\ watchdog.pc = "exited"
    /\ Len(watchdog.tamper_responses) = 1


----------------------------------------------------------------------------
(* SpecPolicy: the decisions of the device side that depend on nothing but   *)
(* the policy and the wall clock: Schedule::is_active of the focus agent,    *)
(* Schedule::is_blocked of the daemon, AppPolicy::is_allowed and             *)
(* Config::is_app_allowed. A behaviour is one call; last keeps its arguments *)
(* and its result.                                                           *)

\* a reading of chrono::Local::now(): weekday (0 = Sunday), hour, minute, second
Now(day, hour, minute, second) ==
    [day |-> day, hour |-> hour, minute |-> minute, second |-> second]

\* format("%H:%M"): two digits of the hour and two of the minute, as a string of
\* digits (the colon stands at the same place in every such string and is left out)
format_hm(hour, minute) == <<hour \div 10, hour % 10, minute \div 10, minute % 10>>

\* the order of String: lexicographic by character
RECURSIVE StrLeq(_, _)
StrLeq(a, b) ==
    IF a = <<>> THEN TRUE
    ELSE IF b = <<>> THEN FALSE
    ELSE IF Head(a) # Head(b) THEN Head(a) < Head(b)
    ELSE StrLeq(Tail(a), Tail(b))

\* TimePeriod of the focus policy
TimePeriod(start, end, days) == [start |-> start, end |-> end, days |-> days]

\* is_active with the day constraint left out
RECURSIVE is_active_any_day(_, _)
is_active_any_day(periods, now) ==
    IF periods = <<>> THEN FALSE
    ELSE LET period == Head(periods)
             current_time == format_hm(now.hour, now.minute)
         IN IF StrLeq(period.start, period.end)
            THEN (StrLeq(period.start, current_time) /\ StrLeq(current_time, period.end))
                 \/ is_active_any_day(Tail(periods), now)
            ELSE (StrLeq(period.start, current_time) \/ StrLeq(current_time, period.end))
                 \/ is_active_any_day(Tail(periods), now)

\* Schedule::is_active of the focus agent: the first period that contains the
\* current "HH:MM" on a permitted weekday decides; strings are compared as strings
RECURSIVE is_active(_, _)
is_active(periods, now) ==
    IF periods = <<>> THEN FALSE
    ELSE LET period == Head(periods)
             current_time == format_hm(now.hour, now.minute)
             current_day == now.day
         IN IF period.days # {} /\ current_day \notin period.days
            THEN is_active(Tail(periods), now)
            ELSE IF StrLeq(period.start, period.end)
            THEN IF StrLeq(period.start, current_time) /\ StrLeq(current_time, period.end)
                 THEN TRUE
                 ELSE is_active(Tail(periods), now)
            ELSE IF StrLeq(period.start, current_time) \/ StrLeq(current_time, period.end)
                 THEN TRUE
                 ELSE is_active(Tail(periods), now)

\* NaiveTime::parse_from_str(s, "%H:%M") as seconds from midnight, None when the
\* digits are no time of day
parse_hm(s) ==
    LET hour == s[1] * 10 + s[2]
        minute == s[3] * 10 + s[4]
    IN IF hour <= 23 /\ minute <= 59 THEN Some(hour * 3600 + minute * 60) ELSE None

\* Schedule::parse_block of the daemon
parse_block(block) ==
    LET start == parse_hm(block.start)
        end == parse_hm(block.end)
    IN IF ~IsSome(start) \/ ~IsSome(end) THEN None
       ELSE Some([start |-> Unwrap(start), end |-> Unwrap(end),
                  crosses_midnight |-> Unwrap(end) < Unwrap(start)])

\* Schedule::new of the daemon: the blocks that parse, in order
RECURSIVE schedule_new(_)
schedule_new(blocks) ==
    IF blocks = <<>> THEN <<>>
    ELSE LET b == parse_block(Head(blocks))
         IN (IF IsSome(b) THEN <<Unwrap(b)>> ELSE <<>>) \o schedule_new(Tail(blocks))

\* Schedule::is_blocked of the daemon on the parsed blocks, the current time taken
\* with its seconds
RECURSIVE is_blocked(_, _)
is_blocked(blocks, now) ==
    IF blocks = <<>> THEN FALSE
    ELSE LET block == Head(blocks)
             current_time == now.hour * 3600 + now.minute * 60 + now.second
         IN IF block.crosses_midnight
            THEN IF current_time >= block.start \/ current_time <= block.end
                 THEN TRUE
                 ELSE is_blocked(Tail(blocks), now)
            ELSE IF current_time >= block.start /\ current_time <= block.end
                 THEN TRUE
                 ELSE is_blocked(Tail(blocks), now)

\* the times of day a period is configured with, as "HH:MM"
ConfiguredTimes == {format_hm(6, 0), format_hm(10, 0), format_hm(22, 0)}
\* the weekday lists a period is configured with
ConfiguredDays == {{}, {0}, {0, 3}}
\* the longest schedule
MaxPeriods == 2
\* the schedules of a focus policy
Periods == {TimePeriod(t[1], t[2], d) : t \in ConfiguredTimes \X ConfiguredTimes, d \in ConfiguredDays}
Schedules == UNION {[1..n -> Periods] : n \in 0..MaxPeriods}
\* the readings of the clock
Readings == {Now(d, t[1], t[2], 0) : d \in {0, 3}, t \in {<<5, 0>>, <<6, 0>>, <<6, 1>>, <<10, 0>>, <<22, 0>>, <<23, 0>>}}
               \cup {Now(0, 6, 0, 30), Now(0, 21, 59, 59)}

\* one call of Schedule::is_active
IsActive ==
    /\ last = NoRequest
    /\ \E periods \in Schedules, now \in Readings :
          last' = Completed("is_active", None, None, 0, "", <<>>,
                            [periods |-> periods, now |-> now], is_active(periods, now))
    /\ UNCHANGED <<enrollments, commands, bootstrap_tokens, cert_auth, uuid_src, clock,
                   lifecycle, delivered, ever_delivered, unsolicited, issued,
                   acknowledged, session_cert, polls, agent, watchdog, cli,
                   network>>

\* Schedule::new on the configured blocks and one call of is_blocked
IsBlocked ==
    /\ last = NoRequest
    /\ \E periods \in Schedules, now \in Readings :
          /\ \A i \in DOMAIN periods : periods[i].days = {}
          /\ last' = Completed("is_blocked", None, None, 0, "", <<>>,
                               [periods |-> periods, now |-> now],
                               is_blocked(schedule_new(periods), now))
    /\ UNCHANGED <<enrollments, commands, bootstrap_tokens, cert_auth, uuid_src, clock,
                   lifecycle, delivered, ever_delivered, unsolicited, issued,
                   acknowledged, session_cert, polls, agent, watchdog, cli,
                   network>>

\* minutes from midnight of the time of day written "HH:MM"
MinuteOfDay(s) == (s[1] * 10 + s[2]) * 60 + s[3] * 10 + s[4]

\* period (start, end, days) contains time of day t, all three in the same unit,
\* on weekday day
PeriodActive(start, end, days, day, t) ==
    /\ days = {} \/ day \in days
    /\ IF start <= end THEN start <= t /\ t <= end ELSE t >= start \/ t <= end

AppLists == SUBSET {Terminal, Twitter, Finder}
AppPolicies == {[mode |-> m, apps |-> x] : m \in {"allowlist", "blocklist"}, x \in AppLists}
\* the bundle ids asked about
BundleIds == {Finder, Dock, Twitter, Terminal, "com.apple.Spotlight", "com.apple.systemuiserver"}

\* one call of AppPolicy::is_allowed
IsAllowed ==
    /\ last = NoRequest
    /\ \E policy \in AppPolicies, bundle_id \in BundleIds :
          last' = Completed("is_allowed", None, None, 0, "", <<>>,
                            [policy |-> policy, bundle_id |-> bundle_id],
                            is_allowed(policy, bundle_id))
    /\ UNCHANGED <<enrollments, commands, bootstrap_tokens, cert_auth, uuid_src, clock,
                   lifecycle, delivered, ever_delivered, unsolicited, issued,
                   acknowledged, session_cert, polls, agent, watchdog, cli,
                   network>>

\* one call of Config::is_app_allowed
IsAppAllowed ==
    /\ last = NoRequest
    /\ \E policy \in AppPolicies, bundle_id \in BundleIds :
          last' = Completed("is_app_allowed", None, None, 0, "", <<>>,
                            [policy |-> policy, bundle_id |-> bundle_id],
                            is_app_allowed(policy, bundle_id))
    /\ UNCHANGED <<enrollments, commands, bootstrap_tokens, cert_auth, uuid_src, clock,
                   lifecycle, delivered, ever_delivered, unsolicited, issued,
                   acknowledged, session_cert, polls, agent, watchdog, cli,
                   network>>

NextPolicy == IsActive \/ IsBlocked \/ IsAllowed \/ IsAppAllowed

SpecPolicy == Init /\ [][NextPolicy]_vars

----------------------------------------------------------------------------
(* SpecReport: operators enqueue and devices report results and poll, on    *)
(* the server as focus-server's main assembles it; last keeps the uuid and   *)
(* the status of the report.                                                 *)

ReportObs == {"last", "args"}

NextReport ==
    \/ CommandPoll("NanoMdm", {NoHeaders}, CommandStatuses, ReportObs)
    \/ Enqueue(IdLists, ReportObs)

SpecReport == Init /\ [][NextReport]_vars

\* C23: a report is stored only if its command_uuid is non-empty and its status is
\* not Idle: a request to POST /mdm/command with Status Idle leaves every row of the
\* commands table as it was, whatever CommandUUID it carries.
C23_IdleReportNotStored ==
    [][(last'.op = "CommandReport" /\ last'.args[2] = "Idle") => commands' = commands]_vars

\* C24 (on SpecQueue): only Pending rows are delivered, and no row goes back to
\* Pending: a row whose status is not Pending has not been returned by a poll since
\* its result was stored, and a row that is not Pending is not Pending after any
\* request.
C24_OnlyPendingDelivered ==
    /\ [](\A i \in DOMAIN commands :
            commands[i].status # "Pending" => delivered[commands[i].uuid] = 0)
    /\ [][\A i \in DOMAIN commands, j \in DOMAIN commands' :
            (commands[i].uuid = commands'[j].uuid /\ commands[i].status # "Pending")
                => commands'[j].status # "Pending"]_vars

\* of two rows of one enrollment the earlier has a stored result and the later was
\* returned by a poll: the enrollment polled after the result was stored, and the
\* poll did not return the earlier row again
C24_Witness ==
    \E i, j \in DOMAIN commands :
        /\ commands[i].enrollment_id = commands[j].enrollment_id
        /\ commands[i].created_at < commands[j].created_at
        /\ commands[i].status = "Acknowledged"
        /\ commands[j].uuid \in ever_delivered
        /\ delivered[commands[i].uuid] = 0

----------------------------------------------------------------------------
(* SpecMulti: the MDM router built with the MultiService, and the API        *)
(* router; devices send every message with or without a certificate.        *)

MultiObs == {"last"}
MultiHeaders == {NoHeaders} \cup HeadersWithCert({CertA})

\* the messages of the device with UDID "A" and the messages that name no device
MultiDevices == {Enrollment(Some("A"), None, None, None), NoEnrollment}
MultiCheckins ==
    {m \in AuthenticateMessages({T1}) \cup TokenUpdateMessages({T1}, {"M1"})
            \cup PlainMessages({"CheckOut", "UserAuthenticate", "GetBootstrapToken",
                                "DeclarativeManagement", "GetToken"})
            \cup SetBootstrapTokenMessages :
        m.enrollment \in MultiDevices}

\* POST /mdm/checkin
MultiCheckin ==
    \E m \in MultiCheckins, h \in MultiHeaders :
        DeviceRequest("MultiService", h, Body("checkin", m), "checkin", MultiObs)

\* POST /mdm/command
MultiCommand ==
    \E m \in {r \in CommandReports : r.enrollment \in MultiDevices /\ r.status = "Acknowledged"},
       h \in MultiHeaders :
        DeviceRequest("MultiService", h, Body("command", m), "command", MultiObs)

NextMulti ==
    \/ MultiCheckin
    \/ MultiCommand
    \/ Enqueue({<<"A">>}, MultiObs)

SpecMulti == Init /\ [][NextMulti]_vars

\* who the MultiService invoked for the last request and how each returned, in order
Invocations ==
    SelectSeq(last.calls,
              LAMBDA c : c \in {"primary", "Ok", "Err"}
                            \cup {"secondary " \o ToString(k) : k \in DOMAIN MULTI_SECONDARY})

\* the last request reached the MultiService
ReachedMulti == last.calls # <<>> /\ last.calls[1] = "primary"

NoFanOut == {"GetBootstrapToken", "DeclarativeManagement", "GetToken"}

\* C25: the MultiService returns the primary's result: the request is answered 200
\* exactly when the primary returned Ok, and an error answered is the primary's. If
\* the primary failed nothing else was invoked. If it returned Ok, then (for the
\* operations that have secondaries run: all but GetBootstrapToken,
\* DeclarativeManagement and GetToken) each secondary was invoked once, in list
\* order, after the primary, whether or not the ones before it failed.
C25_PrimaryResultSecondariesAll ==
    ReachedMulti =>
        LET inv == Invocations
        IN /\ inv[1] = "primary"
           /\ last.status = 200 <=> inv[2] = "Ok"
           /\ last.status # 200 => last.err \in {ERR_UNRESOLVED, ERR_PARSE}
           /\ inv[2] = "Err" => Len(inv) = 2
           /\ (inv[2] = "Ok" /\ last.op \notin NoFanOut) =>
                /\ Len(inv) = 2 + 2 * Len(MULTI_SECONDARY)
                /\ \A k \in DOMAIN MULTI_SECONDARY :
                      /\ inv[2 * k + 1] = "secondary " \o ToString(k)
                      /\ inv[2 * k + 2] \in {"Ok", "Err"}

\* the primary returned Ok, the first secondary failed, the second was invoked all
\* the same and the request was answered 200
C25_Witness ==
    /\ ReachedMulti
    /\ last.op = "TokenUpdate"
    /\ last.status = 200
    /\ Len(Invocations) = 6
    /\ Invocations[4] = "Err"
    /\ Invocations[5] = "secondary 2"

\* C26: GetBootstrapToken, DeclarativeManagement and GetToken never fan out: the
\* MultiService invokes the primary and nothing else, and the request is answered
\* as the primary returned.
C26_ResponseOperationsPrimaryOnly ==
    (ReachedMulti /\ last.op \in NoFanOut) =>
        /\ Len(Invocations) = 2
        /\ Invocations[1] = "primary"
        /\ last.calls = <<"primary", MULTI_PRIMARY, Invocations[2]>>
        /\ last.status = 200 <=> Invocations[2] = "Ok"

\* a GetBootstrapToken was answered 200 by the primary alone
C26_Witness ==
    /\ ReachedMulti
    /\ last.op = "GetBootstrapToken"
    /\ last.status = 200
    /\ last.calls = <<"primary", MULTI_PRIMARY, "Ok">>

----------------------------------------------------------------------------
(* SpecBootstrap: the bootstrap token of the enrollments on the assembled    *)
(* server: devices authenticate, set a token, ask for it, and send the       *)
(* other lifecycle messages.                                                 *)

BootstrapObs == {"last", "args", "lifecycle"}

\* SetBootstrapToken messages with either of two tokens
SetBootstrapToken ==
    \E e \in RawEnrollments, token \in {<<7>>, <<8>>} :
        DeviceRequest("NanoMdm", NoHeaders,
                      Body("checkin", Message("SetBootstrapToken", e, "", <<>>, "", token, 0, "")),
                      "checkin", BootstrapObs)

GetBootstrapToken ==
    \E m \in PlainMessages({"GetBootstrapToken"}) :
        DeviceRequest("NanoMdm", NoHeaders, Body("checkin", m), "checkin", BootstrapObs)

NextBootstrap ==
    \/ Authenticate("NanoMdm", {NoHeaders}, {T1}, BootstrapObs)
    \/ TokenUpdate("NanoMdm", {NoHeaders}, {T1}, {"M1"}, BootstrapObs)
    \/ CheckOut("NanoMdm", {NoHeaders}, BootstrapObs)
    \/ SetBootstrapToken
    \/ GetBootstrapToken

SpecBootstrap == Init /\ [][NextBootstrap]_vars

\* C27: there is at most one token per enrollment, and GetBootstrapToken(id) returns
\* the token of the most recent SetBootstrapToken(id) after the most recent
\* Authenticate(id), an empty response when there is none. Request by request: a
\* SetBootstrapToken of id leaves its token as the token of id, an Authenticate of
\* id leaves id without a token, no other request changes the token of id, and a
\* GetBootstrapToken of id is answered the token of id, or nothing if it has none.
C27_BootstrapTokenLatestSet ==
    [][\A s \in Ids :
        LET answered == last'.status = 200 /\ last'.id = Some(s)
            token(t) == IF s \in DOMAIN t THEN Some(t[s]) ELSE None
        IN /\ (answered /\ last'.op = "SetBootstrapToken")
                => token(bootstrap_tokens') = Some(last'.args[1])
           /\ (answered /\ last'.op = "Authenticate")
                => token(bootstrap_tokens') = None
           /\ ~(answered /\ last'.op \in {"SetBootstrapToken", "Authenticate"})
                => token(bootstrap_tokens') = token(bootstrap_tokens)
           /\ (answered /\ last'.op = "GetBootstrapToken")
                => last'.out = token(bootstrap_tokens)]_vars

\* device A, authenticated, is answered the token <<8>> it has set
C27_Witness ==
    /\ last.op = "GetBootstrapToken"
    /\ last.id = Some("A")
    /\ last.out = Some(<<8>>)
    /\ lifecycle["A"].authenticated

----------------------------------------------------------------------------
(* SpecIndependent: a device and its user channel, two enrollments with the  *)
(* same certificate, on a router built with CertAuthService; operators       *)
(* enqueue for either.                                                       *)

IndependentObs == {"last", "args", "ids"}

\* device A and the user channel of user U1 on it (id "A:U1", parent "A")
Members == {Enrollment(Some("A"), None, None, None), Enrollment(Some("A"), Some("U1"), None, None)}
MemberIds == {Unwrap(resolve(e)).id : e \in Members}

\* POST /mdm/checkin by either enrollment
MemberCheckin ==
    \E e \in Members, token \in PushTokens, h \in HeadersWithCert({CertA}) :
    \E m \in {Message("Authenticate", e, T1, <<>>, "", <<>>, 0, ""),
              Message("TokenUpdate", e, T1, token, "M1", <<>>, 0, ""),
              Message("CheckOut", e, "", <<>>, "", <<>>, 0, ""),
              Message("SetBootstrapToken", e, "", <<>>, "", <<7>>, 0, "")} :
        DeviceRequest("CertAuthService", h, Body("checkin", m), "checkin", IndependentObs)

\* POST /mdm/command by either enrollment, reporting any uuid as Acknowledged
MemberCommand ==
    \E e \in Members, u \in ReportUuids, h \in HeadersWithCert({CertA}) :
        DeviceRequest("CertAuthService", h,
                      Body("command", Message("CommandReport", e, "", <<>>, "", <<>>, u,
                                              "Acknowledged")),
                      "command", IndependentObs)

NextIndependent ==
    \/ MemberCheckin
    \/ MemberCommand
    \/ Enqueue({<<s>> : s \in MemberIds}, IndependentObs)

SpecIndependent == Init /\ [][NextIndependent]_vars

\* what the store holds under enrollment id string s: its enrollment row, its rows of
\* the command queue in order, its bootstrap token and its certificate bindings
RecordsOf(s, e, c, b, ca) ==
    [row |-> IF s \in DOMAIN e THEN Some(e[s]) ELSE None,
     queue |-> SelectSeq(c, LAMBDA r : r.enrollment_id = s),
     token |-> IF s \in DOMAIN b THEN Some(b[s]) ELSE None,
     certs |-> {x \in ca : x[1] = s}]

\* the enrollment ids the completed request r was for
TargetsOf(r) ==
    IF r.op = "Enqueue" THEN {r.args[k] : k \in DOMAIN r.args}
    ELSE IF IsSome(r.id) THEN {Unwrap(r.id)} ELSE {}

\* C28: enrollments have independent lifecycles: a check-in, a command report or an
\* enqueue for one enrollment id leaves the enrollment row, the command queue, the
\* bootstrap token and the certificate bindings of every other id as they were, a
\* device and its user channel included.
C28_IndependentLifecycles ==
    [][\A s \in MemberIds :
        s \notin TargetsOf(last')
            => RecordsOf(s, enrollments', commands', bootstrap_tokens', cert_auth')
                 = RecordsOf(s, enrollments, commands, bootstrap_tokens, cert_auth)]_vars

\* device A has authenticated again while its user channel is enabled and has a
\* command queued
C28_Witness ==
    /\ last.op = "Authenticate"
    /\ last.id = Some("A")
    /\ last.status = 200
    /\ "A:U1" \in DOMAIN enrollments
    /\ ~enrollments["A:U1"].disabled
    /\ RowsOf(commands, "A:U1") # {}
    /\ "A" \in DOMAIN enrollments

----------------------------------------------------------------------------
(* SpecChallenge: moonstone emergency-disable running run_challenge.  Time   *)
(* is counted in seconds; it passes while read_line waits for the user.      *)

MAX_ERRORS == 3
\* the largest challenge duration of the configurations
MaxDuration == 3
\* the number of correct echoes counted
MaxCorrect == 2

\* what read_line gives for a prompt: the challenge string as shown, another line,
\* the word abort, or an error of stdin
Entries == {"challenge", "other", "abort", "error"}

\* run_challenge up to the start of the clock: the user presses ENTER, or stdin fails
challenge_begin(c, read_ok) ==
    IF read_ok THEN [c EXCEPT !.pc = "loop"]
    ELSE [c EXCEPT !.pc = "done", !.result = Some(FALSE)]

\* one pass of the while loop, entered with elapsed < duration: the user answers the
\* prompt with typed after waiting seconds
challenge_entry(c, typed, waiting) ==
    LET c1 == [c EXCEPT !.elapsed = IF @ + waiting > c.duration THEN c.duration ELSE @ + waiting]
    IN CASE typed = "error" -> [c1 EXCEPT !.pc = "done", !.result = Some(FALSE)]
         [] typed = "challenge" ->
                [c1 EXCEPT !.consecutive_errors = 0,
                           !.correct = IF @ < MaxCorrect THEN @ + 1 ELSE @]
         [] typed = "abort" -> [c1 EXCEPT !.pc = "done", !.result = Some(FALSE)]
         [] OTHER ->
                IF c.consecutive_errors + 1 >= MAX_ERRORS
                THEN [c1 EXCEPT !.consecutive_errors = @ + 1, !.pc = "done",
                                !.result = Some(FALSE)]
                ELSE [c1 EXCEPT !.consecutive_errors = @ + 1]

\* the while condition found false: run_challenge returns true
challenge_complete(c) == [c EXCEPT !.pc = "done", !.result = Some(TRUE)]

Challenge(c) ==
    /\ cli' = c
    /\ UNCHANGED <<enrollments, commands, bootstrap_tokens, cert_auth, uuid_src, clock,
                   last, lifecycle, delivered, ever_delivered, unsolicited, issued,
                   acknowledged, session_cert, polls, agent, watchdog,
                   network>>

ChallengeBegin ==
    /\ cli.pc = "begin"
    /\ \E read_ok \in BOOLEAN : Challenge(challenge_begin(cli, read_ok))

ChallengeEntry ==
    /\ cli.pc = "loop"
    /\ cli.elapsed < cli.duration
    /\ \E typed \in Entries, waiting \in 0..MaxDuration :
          Challenge(challenge_entry(cli, typed, waiting))

ChallengeComplete ==
    /\ cli.pc = "loop"
    /\ ~(cli.elapsed < cli.duration)
    /\ Challenge(challenge_complete(cli))

InitChallenge ==
    /\ InitStore
    /\ last = NoRequest
    /\ agent = Agent("running", [mode |-> "blocklist", apps |-> {}], TRUE, {})
    /\ watchdog = Watchdog("off", "sleep")
    /\ network = NoNetwork
    /\ \E duration \in 1..MaxDuration : cli = Cli("begin", duration)

NextChallenge == ChallengeBegin \/ ChallengeEntry \/ ChallengeComplete

SpecChallenge == InitChallenge /\ [][NextChallenge]_vars

\* C30: the challenge succeeds only for a user who echoed challenge strings
\* correctly, and not after three consecutive mistakes: when run_challenge has
\* returned true, the user has echoed at least one challenge string as shown and
\* the count of consecutive mistakes is below three.
C30_ChallengeNeedsCorrectEcho ==
    cli.result = Some(TRUE) => (cli.correct >= 1 /\ cli.consecutive_errors < MAX_ERRORS)

----------------------------------------------------------------------------
(* The fallback of the tamper actions, on SpecWatchdog.                      *)

\* C31: each tamper action falls back to Lock when its primary invocation fails:
\* every call of trigger_tamper_response for Sleep or Shutdown whose first spawn
\* failed has spawned the Lock command (pmset displaysleepnow) after it.
C31_TamperFallsBackToLock ==
    \A i \in DOMAIN watchdog.tamper_responses :
        (/\ watchdog.on_tamper \in {"sleep", "shutdown"}
         /\ Len(watchdog.tamper_responses[i]) > 1)
           => watchdog.tamper_responses[i][2] = "pmset displaysleepnow"

----------------------------------------------------------------------------
(* SpecNetwork: the moonstone daemon with its NetworkBlocker.  The daemon    *)
(* resolves the allowed domains once, when it starts; its ticks load and     *)
(* flush the packet-filter anchor as the schedule enters and leaves block    *)
(* periods; the process may be stopped without running its cleanup and be    *)
(* started again, while the anchor and the rules file stay as they are.      *)

\* the domains websites.allowed can name
Domains == {"github.com", "docs.rs"}

\* the address a domain resolves to when its resolution succeeds
AddressOf(d) == IF d = "github.com" THEN "140.82.121.3" ELSE "18.65.3.10"

\* what to_socket_addrs gives for each domain: its address, or nothing when the
\* resolution of the domains in failed fails
Dns(failed) == [d \in Domains |-> IF d \in failed THEN {} ELSE {AddressOf(d)}]

\* NetworkBlocker::new of a process that starts: the anchor and the rules file are
\* the system's, not the NetworkBlocker's
network_blocker_new(n) ==
    [n EXCEPT !.allowed_ips = {}, !.rules_active = FALSE, !.enabled = ""]

\* what the branch of the main loop taken when the 100 ms sleep completes does with
\* the NetworkBlocker (after the loop is left: the cleanup of main)
network_tick(a, n, write_ok, load_ok) ==
    LET n0 == [n EXCEPT !.enabled = ""]
    IN IF ~a.running THEN disable_blocking(n0)
       ELSE IF a.emergency_disabled THEN n0
       ELSE IF a.blocked
       THEN IF ~n0.rules_active THEN enable_blocking(n0, write_ok, load_ok) ELSE n0
       ELSE IF n0.rules_active THEN disable_blocking(n0)
       ELSE n0

\* what the branch of the main loop taken when an IPC message is received does with
\* the NetworkBlocker
network_message(n, msg) ==
    IF msg = "EmergencyDisable" THEN disable_blocking([n EXCEPT !.enabled = ""])
    ELSE [n EXCEPT !.enabled = ""]

\* a step of the daemon that gives agent a and NetworkBlocker n
DeviceNetwork(a, n) ==
    /\ agent' = a
    /\ network' = n
    /\ UNCHANGED <<enrollments, commands, bootstrap_tokens, cert_auth, uuid_src, clock,
                   last, lifecycle, delivered, ever_delivered, unsolicited, issued,
                   acknowledged, session_cert, polls, watchdog, cli>>

\* main of the daemon up to the loop
NetworkStart ==
    /\ agent.pc = "starting"
    /\ \E failed \in SUBSET Domains :
          DeviceNetwork([kill_all_blocked(agent) EXCEPT !.pc = "running"],
                        resolve_allowed_domains(network_blocker_new(network), Dns(failed)))

NetworkTick ==
    /\ agent.pc = "running"
    /\ \E frontmost \in Frontmost, write_ok \in BOOLEAN, load_ok \in BOOLEAN :
          \E n \in {network_tick(agent, network, write_ok, load_ok)} :
              DeviceNetwork(daemon_tick(agent, frontmost, n.rules_active), n)

NetworkMessage ==
    /\ agent.pc = "running"
    /\ \E msg \in {"Heartbeat", "Status", "Shutdown", "EmergencyDisable"} :
          DeviceNetwork(daemon_message(agent, msg), network_message(network, msg))

\* the daemon is started after its process ended
DaemonStartedAgain ==
    /\ agent.pc = "exited"
    /\ DeviceNetwork(Agent("starting", agent.policy, agent.blocked, agent.procs),
                     [network EXCEPT !.enabled = ""])

InitNetwork ==
    /\ InitStore
    /\ last = NoRequest
    /\ cli = Cli("off", 0)
    /\ watchdog = Watchdog("off", "sleep")
    /\ \E blocked \in BOOLEAN, allowed \in SUBSET Domains :
          /\ agent = Agent("starting", [mode |-> "blocklist", apps |-> {}], blocked, {})
          /\ network = NetworkBlocker(allowed, <<>>, None)

NextNetwork ==
    \/ NetworkStart
    \/ NetworkTick
    \/ NetworkMessage
    \/ ScheduleFlip
    \/ AgentStop
    \/ DaemonStartedAgain

SpecNetwork == InitNetwork /\ [][NextNetwork]_vars

\* the step is a tick of the running daemon's main loop
TickTaken == agent.pc = "running" /\ agent'.did.step = "tick"

\* C32: after any tick in which the schedule is not active the anchor holds no
\* rules, whatever it held before the tick; and a step in which the daemon's
\* NetworkBlocker goes from active to not active leaves the anchor without rules
\* and the rules file removed.
C32_AnchorEmptyWhenNotActive ==
    /\ [][(TickTaken /\ ~agent.blocked) => network'.anchor = <<>>]_vars
    /\ [][(agent.pc = "running" /\ network.rules_active /\ ~network'.rules_active)
          => (network'.anchor = <<>> /\ network'.rules_file = None)]_vars

\* C33: failed resolutions only remove the failed domains from the rule set: a tick
\* of a running daemon, not emergency-disabled, in a block period, with allowed
\* domains configured and enable_blocking not answering an error, leaves the
\* anchor loaded with rules that end with the block-all rule.
C33_BlockAllDespiteDnsFailures ==
    [][(/\ TickTaken
        /\ agent.running
        /\ ~agent.emergency_disabled
        /\ agent.blocked
        /\ network.allowed # {}
        /\ network'.enabled # "Err")
       => (/\ network'.anchor # <<>>
           /\ network'.anchor[Len(network'.anchor)] = BLOCK_ALL)]_vars

----------------------------------------------------------------------------
(* SpecKilled: the running moonstone daemon on a machine where the user      *)
(* opens one application after another, none of them permitted, while the    *)
(* schedule enters and leaves block periods.                                 *)

MaxApps == 11

\* the applications the user opens: one process each, of bundle ids of their own
ManyApps == {App("com.example.app" \o ToString(i), 400 + i) : i \in 1..MaxApps}

\* the user opens an application when no other is running
LaunchOne ==
    /\ agent.procs = {}
    /\ \E p \in ManyApps :
          Device([agent EXCEPT !.procs = {p}, !.did = Did("launch", None, {})], watchdog)

InitKilled ==
    /\ InitStore
    /\ last = NoRequest
    /\ cli = Cli("off", 0)
    /\ network = NoNetwork
    /\ watchdog = Watchdog("off", "sleep")
    /\ agent = [Agent("running", [mode |-> "allowlist", apps |-> {}], TRUE, {})
                   EXCEPT !.did = Did("start", None, {})]

NextKilled == DaemonTick \/ ScheduleFlip \/ LaunchOne

SpecKilled == InitKilled /\ [][NextKilled]_vars

\* C34: the recently_killed set never holds more than 10 bundle ids, and a tick
\* taken while the schedule is not active leaves it empty.
C34_RecentlyKilledBounded ==
    /\ [](Cardinality(agent.recently_killed) <= 10)
    /\ [][(TickTaken /\ ~agent.blocked) => agent'.recently_killed = {}]_vars

----------------------------------------------------------------------------
(* SpecDeliver: operators enqueue commands and device A keeps polling: each  *)
(* poll reports a result for the command the poll before it delivered, with  *)
(* the CommandUUID found in that command, or reports Idle when nothing was   *)
(* delivered.  No Authenticate is sent.  Device B polls as it likes.  The    *)
(* fairness is the device's: A's next poll always comes.                     *)

DeliverObs == {"last", "args", "deliveries"}

\* the statuses of a result for a command
ResultStatuses == {"Acknowledged", "Error"}

\* the CommandUUID of the command the last poll of device A delivered, 0 when it
\* delivered none
InHand ==
    IF last.op = "CommandReport" /\ last.out # <<>> THEN last.out[1] ELSE 0

\* the next poll of device A
FaithfulPoll ==
    \E status \in ResultStatuses :
        DeviceRequest("NanoMdm", NoHeaders,
                      Body("command",
                           Message("CommandReport", Enrollment(Some("A"), None, None, None),
                                   "", <<>>, "", <<>>, InHand,
                                   IF InHand = 0 THEN "Idle" ELSE status)),
                      "command", DeliverObs)

\* a poll of device B, reporting anything
OtherPoll ==
    \E m \in {r \in CommandReports : r.enrollment = Enrollment(Some("B"), None, None, None)} :
        DeviceRequest("NanoMdm", NoHeaders, Body("command", m), "command", {"deliveries"})

NextDeliver == FaithfulPoll \/ OtherPoll \/ Enqueue(IdLists, {"deliveries"})

SpecDeliver == Init /\ [][NextDeliver]_vars

SpecDeliverFair == SpecDeliver /\ WF_vars(FaithfulPoll)

\* C35: every command enqueued for device A is eventually delivered to it.
C35_EveryCommandDelivered ==
    \A u \in 1..MaxRows :
        (\E i \in RowsOf(commands, "A") : commands[i].uuid = u) ~> (u \in ever_delivered)

----------------------------------------------------------------------------
(* SpecPin: the MDM router built on CertAuthService wrapping NanoMdm with    *)
(* the API router on the same store: devices authenticate, update tokens     *)
(* and check out with one certificate or another, or none, and operators     *)
(* enqueue.                                                                  *)

PinObs == {"last"}

NextPin ==
    \/ Authenticate("CertAuthService", AnyHeaders, {T1}, PinObs)
    \/ TokenUpdate("CertAuthService", AnyHeaders, {T1}, {"M1"}, PinObs)
    \/ CheckOut("CertAuthService", AnyHeaders, PinObs)
    \/ Enqueue(IdLists, PinObs)

SpecPin == Init /\ [][NextPin]_vars

\* C36: an Authenticate of a resolved id is accepted whatever certificate it
\* presents, bound or not, or none; it leaves the id's queue empty and the id
\* disabled, and the hash of the certificate presented bound to the id; and no
\* request removes a binding.
C36_AuthenticateUncheckedBindingsKept ==
    /\ [][(/\ last'.op = "Authenticate"
           /\ last'.calls # <<>>
           /\ last'.calls[1] = "CertAuthService"
           /\ IsSome(last'.id))
          => /\ last'.status = 200
             /\ RowsOf(commands', Unwrap(last'.id)) = {}
             /\ is_disabled(DB', DeviceId(Unwrap(last'.id)))
             /\ IsSome(last'.cert)
                  => has_cert_auth(DB', DeviceId(Unwrap(last'.id)),
                                   cert_hash(Unwrap(last'.cert)))]_vars
    /\ [][cert_auth \subseteq cert_auth']_vars

\* device A, bound to certificate A, enabled by a TokenUpdate and with a command
\* queued, has authenticated again with certificate B, not bound before: both
\* hashes are bound now and the queue has been dropped
C36_Witness ==
    /\ last.op = "Authenticate"
    /\ last.status = 200
    /\ last.id = Some("A")
    /\ last.cert = Some(CertB)
    /\ has_cert_auth(DB, DeviceId("A"), cert_hash(CertA))
    /\ has_cert_auth(DB, DeviceId("A"), cert_hash(CertB))
    /\ IsSome(enrollments["A"].push_token)
    /\ clock > Len(commands)

----------------------------------------------------------------------------
(* SpecInjective: Enrollment::resolve applied to the raw enrollments of two  *)
(* messages, the field values being strings of which one holds a colon and   *)
(* one is used both as a UDID and as an EnrollmentID.                        *)

\* the raw enrollments of the two messages
CollidingEnrollments ==
    {Enrollment(f[1], f[2], f[3], f[4]) :
        f \in Field({"A", "A:B", "X"}) \X Field({"B"}) \X Field({"X"}) \X Field({"U"})}

InitInjective ==
    /\ InitStore
    /\ NoDevice
    /\ \E e1 \in CollidingEnrollments, e2 \in CollidingEnrollments :
          last = Completed("Enrollments", None, None, 0, "", <<>>, <<e1, e2>>, <<>>)

\* the calls of resolve on the enrollments of the two messages
ResolvePair ==
    /\ last.op = "Enrollments"
    /\ last' = [last EXCEPT !.op = "resolve_pair",
                            !.out = <<resolve(last.args[1]), resolve(last.args[2])>>]
    /\ UNCHANGED <<enrollments, commands, bootstrap_tokens, cert_auth, uuid_src, clock,
                   lifecycle, delivered, ever_delivered, unsolicited, issued,
                   acknowledged, session_cert, polls, agent, watchdog, cli, network>>

SpecInjective == InitInjective /\ [][ResolvePair]_vars

\* C37: two raw enrollments that resolve to EnrollIds of different kind or of
\* different parent_id do not resolve to the same id string.
C37_CanonicalIdsInjective ==
    (/\ last.op = "resolve_pair"
     /\ IsSome(last.out[1])
     /\ IsSome(last.out[2])
     /\ \/ Unwrap(last.out[1]).enroll_type # Unwrap(last.out[2]).enroll_type
        \/ Unwrap(last.out[1]).parent_id # Unwrap(last.out[2]).parent_id)
    => Unwrap(last.out[1]).id # Unwrap(last.out[2]).id

----------------------------------------------------------------------------
(* SpecLoop: the main loop of the moonstone daemon with its timing.  Every   *)
(* turn of the loop awaits a select of the channel of IPC messages and of a  *)
(* sleep of 100 ms created for that turn.  Time is counted in units of which *)
(* SleepUnits make 100 ms; peers send messages whenever they like.  The      *)
(* fairness is the daemon's and the clock's: time passes, a message received *)
(* is handled, and the select, which picks at random among the branches that *)
(* are ready, does not pass over a completed sleep for ever.                 *)

SleepUnits == 2

\* the messages the channel holds at most in the model (its capacity is 32)
MaxInbox == 1

\* a unit of time passes while the loop awaits its select
LoopSleep ==
    /\ agent.pc = "running"
    /\ agent.sleep_left > 0
    /\ Device([agent EXCEPT !.sleep_left = @ - 1], watchdog)

\* a peer connects to the socket and sends a message; IpcServer::run puts it in
\* the channel
PeerSends ==
    /\ agent.pc = "running"
    /\ Len(agent.inbox) < MaxInbox
    /\ \E msg \in {"Heartbeat", "Status", "Shutdown", "EmergencyDisable"} :
          Device([agent EXCEPT !.inbox = Append(@, msg)], watchdog)

\* the select completes with the message branch; the sleep of the turn is dropped
\* and the next turn creates a new one
LoopMessage ==
    /\ agent.pc = "running"
    /\ agent.inbox # <<>>
    /\ Device([daemon_message(agent, Head(agent.inbox))
                  EXCEPT !.inbox = Tail(@), !.sleep_left = SleepUnits],
              watchdog)

\* the select completes with the sleep branch
LoopTick ==
    /\ agent.pc = "running"
    /\ agent.sleep_left = 0
    /\ \E frontmost \in Frontmost, enable_ok \in BOOLEAN :
          Device([daemon_tick(agent, frontmost, enable_ok) EXCEPT !.sleep_left = SleepUnits],
                 watchdog)

InitLoop ==
    /\ InitStore
    /\ last = NoRequest
    /\ cli = Cli("off", 0)
    /\ network = NoNetwork
    /\ watchdog = Watchdog("off", "sleep")
    /\ \E blocked \in BOOLEAN :
          agent = [Agent("running", [mode |-> "blocklist", apps |-> {Twitter}], blocked,
                         {App(Twitter, 101)})
                      EXCEPT !.did = Did("start", None, {}), !.sleep_left = SleepUnits]

NextLoop == LoopSleep \/ PeerSends \/ LoopMessage \/ LoopTick \/ ScheduleFlip \/ Launch

SpecLoop == InitLoop /\ [][NextLoop]_vars

SpecLoopFair ==
    SpecLoop /\ WF_vars(LoopSleep) /\ WF_vars(LoopMessage) /\ SF_vars(LoopTick)

\* C38: the enforcement tick always eventually runs (or the daemon has exited),
\* however often messages arrive, and a shutdown request is eventually handled:
\* once running is false the daemon exits.
C38_TickNotPostponedByMessages ==
    /\ []<>(agent.did.step = "tick" \/ agent.pc = "exited")
    /\ (~agent.running) ~> (agent.pc = "exited")

----------------------------------------------------------------------------
(* The watchdog's signals and its tamper action, on SpecWatchdog.  A signal  *)
(* counts as received when the signal task has cleared the running flag;    *)
(* main reads the flag when the heartbeat loop has returned.                 *)

\* C39: main of the watchdog ends only after the heartbeat loop returned with
\* four consecutive failures, and performs the tamper action then exactly when
\* no signal has been received; the tamper action is performed at no other
\* moment; a signal leaves the heartbeat loop as it is; and a signalled watchdog
\* that has exited has performed no tamper action.
C39_TamperUnlessSignalled ==
    /\ [][(watchdog.pc # "exited" /\ watchdog'.pc = "exited")
          => /\ watchdog.pc = "returned"
             /\ watchdog.consecutive_failures >= HEARTBEAT_FAILURES
             /\ Len(watchdog.sends) = HEARTBEAT_FAILURES
             /\ \A i \in DOMAIN watchdog.sends : ~watchdog.sends[i]
             /\ Len(watchdog'.tamper_responses) = 1 <=> watchdog.running]_vars
    /\ [][watchdog'.tamper_responses # watchdog.tamper_responses
          => (watchdog.pc = "returned" /\ watchdog'.pc = "exited")]_vars
    /\ [][(watchdog.running /\ ~watchdog'.running)
          => /\ watchdog'.pc = watchdog.pc
             /\ watchdog'.consecutive_failures = watchdog.consecutive_failures
             /\ watchdog'.sends = watchdog.sends]_vars
    /\ []((watchdog.pc = "exited" /\ ~watchdog.running)
             => watchdog.tamper_responses = <<>>)

\* a signalled watchdog saw four heartbeats fail after the daemon stopped and
\* exited without a tamper action
C39_Witness ==
    /\ watchdog.pc = "exited"
    /\ ~watchdog.running
    /\ watchdog.tamper_responses = <<>>
    /\ agent.pc = "exited"
    /\ watchdog.ticks_since_stop = HEARTBEAT_FAILURES

----------------------------------------------------------------------------
(* SpecAgree: the two schedule evaluators asked about the same periods,      *)
(* none with a day restriction, at the same reading of the clock.            *)

\* Schedule::is_active of the focus agent and, on the same blocks, Schedule::new
\* and Schedule::is_blocked of the daemon
EvaluateBoth ==
    /\ last = NoRequest
    /\ \E periods \in Schedules, now \in Readings :
          /\ \A i \in DOMAIN periods : periods[i].days = {}
          /\ last' = Completed("evaluate", None, None, 0, "", <<>>,
                               [periods |-> periods, now |-> now],
                               <<is_active(periods, now),
                                 is_blocked(schedule_new(periods), now)>>)
    /\ UNCHANGED <<enrollments, commands, bootstrap_tokens, cert_auth, uuid_src, clock,
                   lifecycle, delivered, ever_delivered, unsolicited, issued,
                   acknowledged, session_cert, polls, agent, watchdog, cli, network>>

SpecAgree == Init /\ [][EvaluateBoth]_vars

\* C40: for periods without a day restriction and any time of day, is_active of
\* the focus agent and is_blocked of the daemon give the same answer.
C40_EvaluatorsAgree ==
    last.op = "evaluate" => last.out[1] = last.out[2]

====
